---- MODULE Spec2Model ----
(***************************************************************************)
(* Model of the ku3rnel interrupt subsystem: the GICv2 driver              *)
(* (src/arch/arm/core/gic.cpp) with its handler registry, the distributor  *)
(* and CPU-interface registers it programs, and interrupt dispatch with    *)
(* the registered handler running as a callback on the single hardware     *)
(* thread; the generic timer (src/arch/arm/peripherals/timer.cpp) built on *)
(* it; and the page tables the MMU code builds                             *)
(* (src/arch/arm/core/mmu.cpp).                                            *)
(***************************************************************************)
EXTENDS Integers, Sequences, FiniteSets, TLC

VARIABLES
    handlers,       \* GICDriver::handlers[MAX_IRQS]
    num_irq_lines,  \* GICDriver::num_irq_lines
    gicd,           \* distributor registers
    gicc,           \* CPU-interface registers
    pc,             \* "idle", or "handler" while dispatch_interrupt is inside the callback
    irq_id,         \* dispatch_interrupt's local irq_id
    calls,          \* handler invocations made by the current/last dispatch_interrupt
    hops,           \* controller calls made by the running (or last run) handler
    log,            \* MMIO writes of the current/last top-level operation
    last,           \* the most recent controller call: name, arguments, result
    timer,          \* the GenericTimer instance (global_el1_timer_instance)
    cntp,           \* the EL1 physical timer: CNTP_TVAL, CNTP_CTL, CNTFRQ, and whether it has expired
    halted,         \* Kernel::panic has been entered
    tpc,            \* where GenericTimer::init stands, with its frequency_hz argument
    tlog,           \* what the current/last timer operation did, in order
    tlast,          \* the most recent timer call: name, arguments, outcome
    image,          \* the linker symbols KERNEL_START and KERNEL_END of the build
    page_tables,    \* MMU::l1_page_table, l2_page_table_0, l2_page_table_1: "bss" or "populated"
    walk,           \* the descriptor last read from the tables, and for which block
    cpu,            \* the core: DAIF mask bits, VBAR_EL1, SCTLR_EL1, TCR_EL1, MAIR_EL1, TTBR0_EL1
    kpc,            \* the last stage of kernel_main that has completed
    klog,           \* what the current/last boot function or exception handler did, in order
    access,         \* the translation of the core that read it, and its result
    spsr,           \* the mask bits saved by each IRQ exception being handled, outermost first
    initialized,    \* Filesystem::initialized
    file_table,     \* Filesystem::file_table[MAX_FILES]
    block_bitmap,   \* Filesystem::block_bitmap, as the set of blocks marked used
    ram_disk_data,  \* Filesystem::ram_disk_data: the bytes written since init, by address
    files,          \* the FS::File objects open_file has created and nobody has deleted
    flast           \* the most recent filesystem call: name, arguments, result

gvars == <<handlers, num_irq_lines, gicd, gicc, pc, irq_id, calls, hops, log, last>>

tvars == <<timer, cntp, halted, tpc, tlog, tlast>>

mvars == <<image, page_tables, walk>>

kvars == <<cpu, kpc, klog, access, spsr>>

fvars == <<initialized, file_table, block_bitmap, ram_disk_data, files, flast>>

vars == <<handlers, num_irq_lines, gicd, gicc, pc, irq_id, calls, hops, log, last,
          timer, cntp, halted, tpc, tlog, tlast, image, page_tables, walk,
          cpu, kpc, klog, access, spsr,
          initialized, file_table, block_bitmap, ram_disk_data, files, flast>>

----------------------------------------------------------------------------
(* Program constants *)

MAX_IRQS == 256

GICD_CTLR == 0
GICD_TYPER == 4
GICD_ISENABLER0 == 256
GICD_ICENABLER0 == 384
GICD_IPRIORITYR0 == 1024
GICD_ITARGETSR0 == 2048
GICD_ICFGR0 == 3072
GICC_CTLR == 0
GICC_PMR == 4
GICC_BPR == 8
GICC_IAR == 12
GICC_EOIR == 16

NULL == "nullptr"

\* the line of the EL1 physical timer
EL1_PHYSICAL_TIMER_IRQ == 30

----------------------------------------------------------------------------
(* Bounds and input sets *)

\* how many controller calls a handler makes before it returns
MaxHandlerOps == 2

\* handler function pointers and context pointers handed to register_handler
HandlerInputs == {<<"h1", "c1">>, <<"h2", NULL>>, <<NULL, "c1">>}

\* line numbers passed to the controller's operations
IrqInputs == {30, 255, 256}

\* values the hardware returns for GICC_IAR (bits 9:0 ID, bits 12:10 CPUID)
IarInputs == {30, 1024 + 30, 255, 256, 1019, 1020, 1021, 1022, 1023, 2048 + 1023}

\* values the hardware returns for GICD_TYPER (bits 4:0 ITLinesNumber)
TyperInputs == {1, 40}

\* distributor enable bits that may be set when the driver is constructed
BootEnabled == {{40, 255}}

----------------------------------------------------------------------------
(* 32-bit helpers *)
(* A 32-bit register value is kept as its four bytes, lowest first, so that *)
(* bit 31 and the byte lanes of an unaligned store are exact.               *)

\* the 32-bit value of a small number
W32(n) == <<n % 256, (n \div 256) % 256, (n \div 65536) % 256, (n \div 16777216) % 256>>

\* the set bits of a 32-bit value
Bits(w) == {b \in 0..31 : (w[(b \div 8) + 1] \div (2 ^ (b % 8))) % 2 = 1}

BitVal(S, b) == IF b \in S THEN 1 ELSE 0

ByteOf(S, j) ==
    BitVal(S, 8 * j) + 2 * BitVal(S, 8 * j + 1) + 4 * BitVal(S, 8 * j + 2)
        + 8 * BitVal(S, 8 * j + 3) + 16 * BitVal(S, 8 * j + 4) + 32 * BitVal(S, 8 * j + 5)
        + 64 * BitVal(S, 8 * j + 6) + 128 * BitVal(S, 8 * j + 7)

FromBits(S) == <<ByteOf(S, 0), ByteOf(S, 1), ByteOf(S, 2), ByteOf(S, 3)>>

\* (x << s) truncated to 32 bits, for x = 1 and x = 0xFF
Shl1(s) == FromBits({s} \cap (0..31))
ShlFF(s) == FromBits((s..(s + 7)) \cap (0..31))

\* v | x and v & ~x
Or32(v, x) == FromBits(Bits(v) \cup Bits(x))
AndNot32(v, x) == FromBits(Bits(v) \ Bits(x))

----------------------------------------------------------------------------
(* Hardware: the register files and what a read or a write does *)

\* a byte-addressed register block: the byte at offset a is mem[a + 1]
ByteAt(mem, a) == IF a + 1 \in DOMAIN mem THEN mem[a + 1] ELSE 0

WordAt(mem, a) == <<ByteAt(mem, a), ByteAt(mem, a + 1), ByteAt(mem, a + 2), ByteAt(mem, a + 3)>>

\* a 32-bit store at byte offset a; bytes past the end of the block are dropped
StoreWord(mem, a, v) ==
    IF a + 4 \in DOMAIN mem
    THEN [mem EXCEPT ![a + 1] = v[1], ![a + 2] = v[2], ![a + 3] = v[3], ![a + 4] = v[4]]
    ELSE [x \in DOMAIN mem |-> IF x - 1 \in a..(a + 3) THEN v[x - a] ELSE mem[x]]

\* a register block of the given size with every byte zero
Zeroed(size) == [a \in 1..size |-> 0]

InBlock(offset, base, size) == offset >= base /\ offset < base + size

\* GICD_TYPER bits 4:0 are ITLinesNumber: the controller implements
\* 32 * (ITLinesNumber + 1) lines, which is also what init computes
LinesOf(typer) == ((typer[1] % 32) + 1) * 32

\* the lines whose bits in an enable register the word at byte offset rel covers
LinesIn(g, rel, value) ==
    {32 * (rel \div 4) + b : b \in Bits(value)} \cap (0..(LinesOf(g.typer) - 1))

\* distributor: ISENABLERn is write-1-to-set, ICENABLERn write-1-to-clear; the
\* priority, target and configuration blocks are storage, one byte (two bits
\* for the configuration) for each line the controller implements; the bits
\* and bytes of lines it does not implement ignore writes and read as zero
gicd_write(g, offset, value) ==
    IF offset = GICD_CTLR THEN [g EXCEPT !.ctlr = value]
    ELSE IF InBlock(offset, GICD_ISENABLER0, 128)
    THEN [g EXCEPT !.enabled = @ \cup LinesIn(g, offset - GICD_ISENABLER0, value)]
    ELSE IF InBlock(offset, GICD_ICENABLER0, 128)
    THEN [g EXCEPT !.enabled = @ \ LinesIn(g, offset - GICD_ICENABLER0, value)]
    ELSE IF InBlock(offset, GICD_IPRIORITYR0, 1024)
    THEN [g EXCEPT !.prio = StoreWord(@, offset - GICD_IPRIORITYR0, value)]
    ELSE IF InBlock(offset, GICD_ITARGETSR0, 1024)
    THEN [g EXCEPT !.target = StoreWord(@, offset - GICD_ITARGETSR0, value)]
    ELSE IF InBlock(offset, GICD_ICFGR0, 256)
    THEN [g EXCEPT !.cfg = StoreWord(@, offset - GICD_ICFGR0, value)]
    ELSE g

gicd_read(g, offset) ==
    IF offset = GICD_CTLR THEN g.ctlr
    ELSE IF offset = GICD_TYPER THEN g.typer
    ELSE IF InBlock(offset, GICD_IPRIORITYR0, 1024)
    THEN WordAt(g.prio, offset - GICD_IPRIORITYR0)
    ELSE IF InBlock(offset, GICD_ITARGETSR0, 1024)
    THEN WordAt(g.target, offset - GICD_ITARGETSR0)
    ELSE IF InBlock(offset, GICD_ICFGR0, 256)
    THEN WordAt(g.cfg, offset - GICD_ICFGR0)
    ELSE W32(0)

\* CPU interface: EOIR is write-only and holds no state
gicc_write(c, offset, value) ==
    IF offset = GICC_CTLR THEN [c EXCEPT !.ctlr = value]
    ELSE IF offset = GICC_PMR THEN [c EXCEPT !.pmr = value]
    ELSE IF offset = GICC_BPR THEN [c EXCEPT !.bpr = value]
    ELSE c

\* one MMIO access as the log keeps it: the driver function that made it,
\* the block, read or write, the offset and the value
Access(fn, blk, rw, offset, value) ==
    [fn |-> fn, blk |-> blk, rw |-> rw, off |-> offset, val |-> value]

\* the machine threaded through a driver function: both register files and the log
GicdW(m, fn, offset, value) ==
    [m EXCEPT !.gicd = gicd_write(@, offset, value),
              !.log = Append(@, Access(fn, "GICD", "w", offset, value))]

GicdR(m, fn, offset) ==
    [m EXCEPT !.log = Append(@, Access(fn, "GICD", "r", offset, gicd_read(m.gicd, offset)))]

GiccW(m, fn, offset, value) ==
    [m EXCEPT !.gicc = gicc_write(@, offset, value),
              !.log = Append(@, Access(fn, "GICC", "w", offset, value))]

GiccR(m, fn, offset, value) ==
    [m EXCEPT !.log = Append(@, Access(fn, "GICC", "r", offset, value))]

----------------------------------------------------------------------------
(* The driver's functions *)

EmptySlot == [handler |-> NULL, context |-> NULL, is_registered |-> FALSE]

\* handlers[MAX_IRQS] is kept sparsely: a slot whose bytes are all zero, as
\* kmemset leaves it, is not stored
Slot(hs, i) == IF i \in DOMAIN hs THEN hs[i] ELSE EmptySlot

SetSlot(hs, i, v) ==
    IF v = EmptySlot THEN [x \in DOMAIN hs \ {i} |-> hs[x]]
    ELSE [x \in DOMAIN hs \cup {i} |-> IF x = i THEN v ELSE hs[x]]

\* GICDriver::GICDriver: kmemset(handlers, 0, sizeof(handlers))
Constructed == [i \in {} |-> EmptySlot]

\* enable_irq with the register index not scaled to a byte offset
enable_irq_unscaled(m, n, irq_num) ==
    IF irq_num >= n \/ irq_num >= MAX_IRQS THEN m
    ELSE GicdW(m, "enable_irq", GICD_ISENABLER0 + (irq_num \div 32), Shl1(irq_num % 32))

enable_irq(m, n, irq_num) ==
    IF irq_num >= n \/ irq_num >= MAX_IRQS THEN m
    ELSE GicdW(m, "enable_irq", GICD_ISENABLER0 + (irq_num \div 32) * 4, Shl1(irq_num % 32))

disable_irq(m, n, irq_num) ==
    IF irq_num >= n \/ irq_num >= MAX_IRQS THEN m
    ELSE GicdW(m, "disable_irq", GICD_ICENABLER0 + (irq_num \div 32) * 4, Shl1(irq_num % 32))

end_of_interrupt(m, irq_num) == GiccW(m, "end_of_interrupt", GICC_EOIR, W32(irq_num))

\* register_handler without the is_registered check: the second caller wins
register_handler_overwrite(hs, irq_num, handler, context) ==
    IF irq_num >= MAX_IRQS THEN [handlers |-> hs, ret |-> "false"]
    ELSE [handlers |-> SetSlot(hs, irq_num,
                               [handler |-> handler, context |-> context, is_registered |-> TRUE]),
          ret |-> "true"]

\* register_handler with the bounds check off by one
register_handler_off_by_one(hs, irq_num, handler, context) ==
    IF irq_num > MAX_IRQS THEN [handlers |-> hs, ret |-> "false"]
    ELSE IF Slot(hs, irq_num).is_registered THEN [handlers |-> hs, ret |-> "false"]
    ELSE [handlers |-> SetSlot(hs, irq_num,
                               [handler |-> handler, context |-> context, is_registered |-> TRUE]),
          ret |-> "true"]

register_handler(hs, irq_num, handler, context) ==
    IF irq_num >= MAX_IRQS THEN [handlers |-> hs, ret |-> "false"]
    ELSE IF Slot(hs, irq_num).is_registered THEN [handlers |-> hs, ret |-> "false"]
    ELSE LET s1 == [Slot(hs, irq_num) EXCEPT !.handler = handler]
             s2 == [s1 EXCEPT !.context = context]
             s3 == [s2 EXCEPT !.is_registered = TRUE]
         IN  [handlers |-> SetSlot(hs, irq_num, s3), ret |-> "true"]

\* unregister_handler that forgets to clear the context pointer
unregister_handler_stale_context(hs, irq_num) ==
    IF irq_num >= MAX_IRQS THEN [handlers |-> hs, ret |-> "false"]
    ELSE IF ~Slot(hs, irq_num).is_registered THEN [handlers |-> hs, ret |-> "false"]
    ELSE [handlers |-> SetSlot(hs, irq_num,
                               [Slot(hs, irq_num) EXCEPT !.is_registered = FALSE, !.handler = NULL]),
          ret |-> "true"]

\* unregister_handler that clears the flag and leaves both pointers
unregister_handler_flag_only(hs, irq_num) ==
    IF irq_num >= MAX_IRQS THEN [handlers |-> hs, ret |-> "false"]
    ELSE IF ~Slot(hs, irq_num).is_registered THEN [handlers |-> hs, ret |-> "false"]
    ELSE [handlers |-> SetSlot(hs, irq_num, [Slot(hs, irq_num) EXCEPT !.is_registered = FALSE]),
          ret |-> "true"]

\* unregister_handler without the is_registered check
unregister_handler_unchecked(hs, irq_num) ==
    IF irq_num >= MAX_IRQS THEN [handlers |-> hs, ret |-> "false"]
    ELSE [handlers |-> SetSlot(hs, irq_num, EmptySlot), ret |-> "true"]

unregister_handler(hs, irq_num) ==
    IF irq_num >= MAX_IRQS THEN [handlers |-> hs, ret |-> "false"]
    ELSE IF ~Slot(hs, irq_num).is_registered THEN [handlers |-> hs, ret |-> "false"]
    ELSE LET s1 == [Slot(hs, irq_num) EXCEPT !.is_registered = FALSE]
             s2 == [s1 EXCEPT !.handler = NULL]
             s3 == [s2 EXCEPT !.context = NULL]
         IN  [handlers |-> SetSlot(hs, irq_num, s3), ret |-> "true"]

set_irq_target_cpu0(m, spi_num) ==
    IF spi_num < 32 THEN m
    ELSE LET reg_offset == GICD_ITARGETSR0 + (spi_num \div 4) * 4
             shift == (spi_num % 4) * 8
             m1 == GicdR(m, "set_irq_target_cpu0", reg_offset)
             val == gicd_read(m.gicd, reg_offset)
         IN  GicdW(m1, "set_irq_target_cpu0", reg_offset,
                   Or32(AndNot32(val, ShlFF(shift)), Shl1(shift)))

configure_irq_trigger(m, irq_num, edge_triggered) ==
    IF irq_num < 16 THEN m
    ELSE IF irq_num < 32 /\ irq_num >= 16 THEN m
    ELSE LET reg_offset == GICD_ICFGR0 + (irq_num \div 16) * 4
             shift == ((irq_num % 16) * 2) + 1
             m1 == GicdR(m, "configure_irq_trigger", reg_offset)
             val == gicd_read(m.gicd, reg_offset)
         IN  GicdW(m1, "configure_irq_trigger", reg_offset,
                   IF edge_triggered THEN Or32(val, Shl1(shift))
                   ELSE AndNot32(val, Shl1(shift)))

\* one iteration of init's loop over the shared lines
InitLine(m, i) ==
    LET m1 == GicdW(m, "init", GICD_IPRIORITYR0 + (i \div 4) * 4 + (i % 4), W32(160))
        m2 == configure_irq_trigger(m1, i, FALSE)
        m3 == set_irq_target_cpu0(m2, i)
    IN  GicdW(m3, "init", GICD_ICENABLER0 + (i \div 32) * 4, Shl1(i % 32))

\* init's loop "for i = lo; i < hi; ++i", split in halves to keep the evaluation shallow
RECURSIVE InitLoop(_, _, _)
InitLoop(m, lo, hi) ==
    IF lo >= hi THEN m
    ELSE IF hi = lo + 1 THEN InitLine(m, lo)
    ELSE LET mid == (lo + hi) \div 2
             m1 == InitLoop(m, lo, mid)
         IN  IF Len(m1.log) >= 0 THEN InitLoop(m1, mid, hi) ELSE m1

\* init that switches the distributor back on before it configures the lines
init_distributor_on_early(m) ==
    LET m1 == GicdW(m, "init", GICD_CTLR, W32(0))
        m2 == GicdR(m1, "init", GICD_TYPER)
        n  == LinesOf(gicd_read(m1.gicd, GICD_TYPER))
        m3 == GicdW(m2, "init", GICD_CTLR, W32(1))
        m4 == InitLoop(m3, 32, IF n < MAX_IRQS THEN n ELSE MAX_IRQS)
        m5 == GiccW(m4, "init", GICC_PMR, W32(255))
        m6 == GiccW(m5, "init", GICC_BPR, W32(3))
    IN  GiccW(m6, "init", GICC_CTLR, W32(1))

init(m) ==
    LET m1 == GicdW(m, "init", GICD_CTLR, W32(0))
        m2 == GicdR(m1, "init", GICD_TYPER)
        n  == LinesOf(gicd_read(m1.gicd, GICD_TYPER))
        m3 == InitLoop(m2, 32, IF n < MAX_IRQS THEN n ELSE MAX_IRQS)
        m4 == GicdW(m3, "init", GICD_CTLR, W32(1))
        m5 == GiccW(m4, "init", GICC_PMR, W32(255))
        m6 == GiccW(m5, "init", GICC_BPR, W32(3))
    IN  GiccW(m6, "init", GICC_CTLR, W32(1))

\* dispatch_interrupt: irq_id = iar_val & 0x3FF
IrqIdOf(iar_val) == (iar_val[1] + 256 * iar_val[2]) % 1024

\* dispatch_interrupt calling through a registered slot without testing the pointer
DispatchPath_null_call(hs, n, id) ==
    IF id >= 1020 /\ id <= 1023 THEN "spurious"
    ELSE IF id >= n /\ id < 1020 THEN "out_of_range"
    ELSE IF id >= MAX_IRQS THEN "out_of_bounds"
    ELSE IF Slot(hs, id).is_registered THEN "call"
    ELSE "unhandled"

\* dispatch_interrupt without the check against num_irq_lines
DispatchPath_no_line_check(hs, n, id) ==
    IF id >= 1020 /\ id <= 1023 THEN "spurious"
    ELSE IF id >= MAX_IRQS THEN "out_of_bounds"
    ELSE IF Slot(hs, id).is_registered /\ Slot(hs, id).handler # NULL THEN "call"
    ELSE "unhandled"

\* dispatch_interrupt up to the handler call: which way it goes for irq_id
DispatchPath(hs, n, id) ==
    IF id >= 1020 /\ id <= 1023 THEN "spurious"
    ELSE IF id >= n /\ id < 1020 THEN "out_of_range"
    ELSE IF id >= MAX_IRQS THEN "out_of_bounds"
    ELSE IF Slot(hs, id).is_registered /\ Slot(hs, id).handler # NULL THEN "call"
    ELSE "unhandled"

\* dispatch_interrupt signalling end-of-interrupt itself whatever the slot holds
DispatchTail_always_eoi(m, hs, id) == GiccW(m, "dispatch_interrupt", GICC_EOIR, W32(id))

\* dispatch_interrupt's final test looking at the registered flag alone
DispatchTail_flag_only(m, hs, id) ==
    IF ~Slot(hs, id).is_registered
    THEN GiccW(m, "dispatch_interrupt", GICC_EOIR, W32(id))
    ELSE m

\* dispatch_interrupt after the handler call (or the unhandled message):
\* the table is read again, and an unhandled line gets its end-of-interrupt here
DispatchTail(m, hs, id) ==
    IF ~Slot(hs, id).is_registered \/ Slot(hs, id).handler = NULL
    THEN GiccW(m, "dispatch_interrupt", GICC_EOIR, W32(id))
    ELSE m

\* dispatch_interrupt signalling end-of-interrupt for every spurious ID, 1023 included
DispatchDrop_eoi_1023(m, path, id) == GiccW(m, "dispatch_interrupt", GICC_EOIR, W32(id))

\* dispatch_interrupt on the paths that return before the handler table is used
DispatchDrop(m, path, id) ==
    IF path = "spurious"
    THEN (IF id # 1023 THEN GiccW(m, "dispatch_interrupt", GICC_EOIR, W32(id)) ELSE m)
    ELSE GiccW(m, "dispatch_interrupt", GICC_EOIR, W32(id))

Call(op, irq, h, ctx, ret) == [op |-> op, irq |-> irq, h |-> h, ctx |-> ctx, ret |-> ret]

----------------------------------------------------------------------------
(* The state machine *)

\* GenericTimer::GenericTimer
TimerConstructed ==
    [user_handler |-> NULL, user_context |-> NULL,
     irq_number |-> EL1_PHYSICAL_TIMER_IRQ, current_interval_ticks |-> 0]

\* the timer registers as the boot firmware leaves them
CntpAtBoot(ctl, frq) == [tval |-> 0, ctl |-> ctl, frq |-> frq, fired |-> FALSE]

TimerCall(op, f, h, ctx, ret) ==
    [op |-> op, frequency_hz |-> f, handler |-> h, context |-> ctx, ret |-> ret]

\* PSTATE.DAIF with every exception masked, as the core leaves reset
AllMasked == {"D", "A", "I", "F"}

\* the core as kernel_main finds it: the system registers by their one-bits
CoreAtBoot(daif, sctlr) ==
    [daif |-> daif, vbar |-> "unset", sctlr |-> sctlr,
     tcr |-> {}, mair |-> {}, ttbr0 |-> {}]

\* no address has been translated
NoAccess == [va |-> 0, kind |-> "none", level |-> 0, pa |-> 0]

CoreUntouched ==
    /\ cpu = CoreAtBoot(AllMasked, {})
    /\ kpc = "start"
    /\ klog = <<>>
    /\ access = NoAccess
    /\ spsr = <<>>

\* Kernel::panic that leaves the mask bits alone
panic_unmasked(c, message) ==
    [cpu |-> c.cpu,
     klog |-> c.klog \o <<"println *** KERNEL PANIC ***">>
                  \o (IF message = NULL THEN <<"println No message provided.">>
                      ELSE <<"print Message: ", "println message">>)
                  \o <<"println System halted.", "wfi">>]

\* Kernel::panic: interrupts masked, the message printed, then wfi for ever
panic(c, message) ==
    [cpu |-> [c.cpu EXCEPT !.daif = AllMasked],
     klog |-> c.klog \o <<"msr daifset, #0xf", "println *** KERNEL PANIC ***">>
                  \o (IF message = NULL THEN <<"println No message provided.">>
                      ELSE <<"print Message: ", "println message">>)
                  \o <<"println System halted.", "wfi">>]

\* the MMU code has not run: the tables are zeroed .bss, nothing was walked
NoWalk == [table |-> "none", index |-> 0, descriptor |-> {}]

\* a build whose kernel image is loaded at 0x80000 and ends at 0x100000
MmuUntouched ==
    /\ image = [KERNEL_START |-> <<0, 524288>>, KERNEL_END |-> <<0, 1048576>>,
                l1_page_table |-> <<0, 589824>>, l2_page_table_0 |-> <<0, 593920>>,
                l2_page_table_1 |-> <<0, 598016>>]
    /\ page_tables = "bss"
    /\ walk = NoWalk

\* the timer before anything has called it
TimerUntouched ==
    /\ timer = TimerConstructed
    /\ halted = FALSE
    /\ tpc = [at |-> "idle", frequency_hz |-> 0]
    /\ tlog = <<>>
    /\ tlast = TimerCall("GenericTimer", 0, NULL, NULL, "void")

\* the RAM disk's geometry and limits (kernel/filesystem/types.h)
BLOCK_SIZE_BYTES == 512

MAX_BLOCKS == 512

MAX_FILENAME_LENGTH == 32

MAX_FILES == 64

MAX_BLOCKS_PER_FILE == 8

MAX_FILE_SIZE_BYTES == MAX_BLOCKS_PER_FILE * BLOCK_SIZE_BYTES

\* FileMetadata::FileMetadata(): an unused slot
FileMetadata ==
    [name |-> "", type |-> "FILE", in_use |-> FALSE,
     start_block |-> 0, num_blocks |-> 0, size_bytes |-> 0]

\* a filesystem call and what it returned; the fields a call does not have are zero
FileCall(op, name, mode, file, pos, size, buffer, count, res, bytes, data) ==
    [op |-> op, name |-> name, mode |-> mode, file |-> file, pos |-> pos, size |-> size,
     buffer |-> buffer, count |-> count, res |-> res, bytes |-> bytes, data |-> data]

\* the global Filesystem as constructed: initialized(false), the arrays zeroed .bss,
\* every file_table entry default-constructed, no File object yet
FsUntouched ==
    /\ initialized = FALSE
    /\ file_table = [i \in 0..(MAX_FILES - 1) |-> FileMetadata]
    /\ block_bitmap = {}
    /\ ram_disk_data = << >>
    /\ files = << >>
    /\ flast = FileCall("Filesystem", NULL, 0, 0, 0, 0, -1, 0, "void", 0, << >>)

Init ==
    /\ TimerUntouched
    /\ FsUntouched
    /\ MmuUntouched
    /\ CoreUntouched
    /\ cntp = CntpAtBoot(0, 1000000)
    /\ handlers = Constructed
    /\ num_irq_lines = 0
    /\ \E t \in TyperInputs, en \in BootEnabled :
          gicd = [ctlr |-> W32(0), typer |-> W32(t),
                  enabled |-> en \cap (0..(LinesOf(W32(t)) - 1)),
                  prio |-> Zeroed(LinesOf(W32(t))),
                  target |-> Zeroed(LinesOf(W32(t))),
                  cfg |-> Zeroed(LinesOf(W32(t)) \div 4)]
    /\ gicc = [ctlr |-> W32(0), pmr |-> W32(0), bpr |-> W32(0)]
    /\ pc = "idle"
    /\ irq_id = 0
    /\ calls = <<>>
    /\ hops = 0
    /\ log = <<>>
    /\ last = Call("GICDriver", 0, NULL, NULL, "void")

\* kernel_main runs gic_init_global before anything uses the controller
Booted == num_irq_lines > 0

\* kernel code calls the controller between interrupts
CanCall == Booted /\ pc = "idle"

\* gic_init_global has run the controller's init and not yet unmasked the core
InGicInitGlobal == Booted /\ last.op = "init" /\ "I" \in cpu.daif /\ ~halted

\* the handler that dispatch_interrupt is running calls back into the
\* controller: end_of_interrupt, as the handlers here do, and the registry
CanCallBack == Booted /\ (pc = "idle" \/ (pc = "handler" /\ hops < MaxHandlerOps))

\* the machine a call starts from: the log restarts with each top-level call
Machine == [gicd |-> gicd, gicc |-> gicc, log |-> IF pc = "handler" THEN log ELSE <<>>]

\* what every call leaves behind besides its own effect
Called(m, call) ==
    /\ gicd' = m.gicd
    /\ gicc' = m.gicc
    /\ log' = m.log
    /\ last' = call
    /\ hops' = IF pc = "handler" THEN hops + 1 ELSE 0
    /\ calls' = IF pc = "handler" THEN calls ELSE <<>>
    /\ irq_id' = IF pc = "handler" THEN irq_id ELSE 0
    /\ pc' = pc
    /\ UNCHANGED <<tvars, mvars, fvars, kvars>>

\* init runs at boot, and may be run again back to back
GicInit ==
    /\ pc = "idle"
    /\ last.op \in {"GICDriver", "init"}
    /\ num_irq_lines' = LinesOf(gicd_read(gicd, GICD_TYPER))
    /\ Called(init(Machine), Call("init", 0, NULL, NULL, "void"))
    /\ UNCHANGED handlers

EnableIrq ==
    \E irq_num \in IrqInputs :
        /\ CanCall
        /\ Called(enable_irq(Machine, num_irq_lines, irq_num),
                  Call("enable_irq", irq_num, NULL, NULL, "void"))
        /\ UNCHANGED <<handlers, num_irq_lines>>

DisableIrq ==
    \E irq_num \in IrqInputs :
        /\ CanCall
        /\ Called(disable_irq(Machine, num_irq_lines, irq_num),
                  Call("disable_irq", irq_num, NULL, NULL, "void"))
        /\ UNCHANGED <<handlers, num_irq_lines>>

EndOfInterrupt ==
    \E irq_num \in IrqInputs :
        /\ CanCallBack
        /\ Called(end_of_interrupt(Machine, irq_num),
                  Call("end_of_interrupt", irq_num, NULL, NULL, "void"))
        /\ UNCHANGED <<handlers, num_irq_lines>>

RegisterHandler ==
    \E irq_num \in IrqInputs, hc \in HandlerInputs :
        LET r == register_handler(handlers, irq_num, hc[1], hc[2]) IN
        /\ CanCallBack
        /\ handlers' = r.handlers
        /\ Called(Machine, Call("register_handler", irq_num, hc[1], hc[2], r.ret))
        /\ UNCHANGED num_irq_lines

UnregisterHandler ==
    \E irq_num \in IrqInputs :
        LET r == unregister_handler(handlers, irq_num) IN
        /\ CanCallBack
        /\ handlers' = r.handlers
        /\ Called(Machine, Call("unregister_handler", irq_num, NULL, NULL, r.ret))
        /\ UNCHANGED num_irq_lines

\* dispatch_interrupt from its entry to its return, or to the handler call
DispatchInterrupt ==
    \E iar_val \in IarInputs, dummy_irq_num \in {0, 30} :
        LET id   == IrqIdOf(W32(iar_val))
            path == DispatchPath(handlers, num_irq_lines, id)
            m0   == GiccR([gicd |-> gicd, gicc |-> gicc, log |-> <<>>],
                          "dispatch_interrupt", GICC_IAR, W32(iar_val))
            m    == IF path = "call" THEN m0
                    ELSE IF path = "unhandled" THEN DispatchTail(m0, handlers, id)
                    ELSE DispatchDrop(m0, path, id)
        IN
        /\ Booted
        /\ pc = "idle"
        /\ irq_id' = id
        /\ calls' = IF path = "call"
                    THEN <<[handler |-> Slot(handlers, id).handler, irq_num |-> id,
                            context |-> Slot(handlers, id).context]>>
                    ELSE <<>>
        /\ pc' = IF path = "call" THEN "handler" ELSE "idle"
        /\ gicd' = m.gicd
        /\ gicc' = m.gicc
        /\ log' = m.log
        /\ hops' = 0
        /\ last' = Call("dispatch_interrupt", id, NULL, NULL,
                        IF path = "call" THEN "in_handler" ELSE "void")
        /\ UNCHANGED <<handlers, num_irq_lines>>
        /\ UNCHANGED <<tvars, mvars, fvars, kvars>>

\* the handler returns and dispatch_interrupt runs to its end
HandlerReturn ==
    LET m == DispatchTail([gicd |-> gicd, gicc |-> gicc, log |-> log], handlers, irq_id) IN
    /\ pc = "handler"
    /\ pc' = "idle"
    /\ gicd' = m.gicd
    /\ gicc' = m.gicc
    /\ log' = m.log
    /\ last' = Call("dispatch_interrupt", irq_id, NULL, NULL, "void")
    /\ UNCHANGED <<handlers, num_irq_lines, irq_id, calls, hops>>
    /\ UNCHANGED <<tvars, mvars, fvars, kvars>>

Next ==
    \/ GicInit
    \/ EnableIrq
    \/ DisableIrq
    \/ EndOfInterrupt
    \/ RegisterHandler
    \/ UnregisterHandler
    \/ DispatchInterrupt
    \/ HandlerReturn

Spec == Init /\ [][Next]_vars

----------------------------------------------------------------------------
(* Reading the log *)

Writes(l) == SelectSeq(l, LAMBDA e : e.rw = "w")

IsEoi(e, id) == e.blk = "GICC" /\ e.rw = "w" /\ e.off = GICC_EOIR /\ e.val = W32(id)

\* the end-of-interrupt writes for line id
EoiWrites(l, id) == SelectSeq(l, LAMBDA e : IsEoi(e, id))

\* those of them that function fn issued
EoiWritesBy(l, id, fn) == SelectSeq(l, LAMBDA e : IsEoi(e, id) /\ e.fn = fn)

\* the accesses the step adds to the log
NewAccesses == IF pc = "handler" THEN SubSeq(log', Len(log) + 1, Len(log')) ELSE log'

Deliverable(id) == id < num_irq_lines /\ id < MAX_IRQS

Callable(hs, id) == Slot(hs, id).is_registered /\ Slot(hs, id).handler # NULL

\* dispatch_interrupt has returned
DispatchDone == pc = "idle" /\ last.op = "dispatch_interrupt"

\* the step is a call of op (every call leaves its name in last)
Step(op) == last'.op = op

----------------------------------------------------------------------------
(* C1..C10: dispatch, the handler registry, the enable bits *)

\* the one invocation dispatch_interrupt makes for a callable slot
Invocation(hs, id) ==
    <<[handler |-> Slot(hs, id).handler, irq_num |-> id, context |-> Slot(hs, id).context]>>

DispatcherEoi(id) == <<Access("dispatch_interrupt", "GICC", "w", GICC_EOIR, W32(id))>>

\* C2 as stated: once dispatch_interrupt has invoked a handler for the
\* acknowledged line, it writes no end-of-interrupt of its own for that
\* line, whatever the handler did while it ran (unregistering its own line
\* included), so a handler's single end-of-interrupt is the only one.
C2_Original ==
    (DispatchDone /\ Len(calls) = 1)
        => /\ EoiWritesBy(log, last.irq, "dispatch_interrupt") = <<>>
           /\ Len(EoiWritesBy(log, last.irq, "end_of_interrupt")) = 1
                  => Len(EoiWrites(log, last.irq)) = 1

\* C2 (amended): once dispatch_interrupt has invoked a handler for the
\* acknowledged line, it writes no end-of-interrupt of its own while the
\* handler runs, and none after the handler returns provided the line's slot
\* then still holds a registered, non-null handler, whatever else the handler
\* did (registry calls on other lines included); when the handler leaves its
\* own line without a callable handler, dispatch_interrupt writes exactly one
\* end-of-interrupt for it after the handler returns.
C2_DispatcherEoiOnlyIfSlotLost ==
    /\ pc = "handler" => EoiWritesBy(log, irq_id, "dispatch_interrupt") = <<>>
    /\ (DispatchDone /\ Len(calls) = 1)
          => /\ EoiWritesBy(log, last.irq, "dispatch_interrupt")
                    = (IF Callable(handlers, last.irq) THEN <<>> ELSE DispatcherEoi(last.irq))
             /\ (Callable(handlers, last.irq)
                    /\ Len(EoiWritesBy(log, last.irq, "end_of_interrupt")) = 1)
                  => Len(EoiWrites(log, last.irq)) = 1

C2_Witness ==
    /\ DispatchDone
    /\ Len(calls) = 1
    /\ last.irq = 30
    /\ hops = 2
    /\ Slot(handlers, 30) = [handler |-> "h1", context |-> "c1", is_registered |-> TRUE]
    /\ Slot(handlers, 255).is_registered
    /\ Writes(log) = <<Access("end_of_interrupt", "GICC", "w", GICC_EOIR, W32(30))>>

\* C3: when the acknowledged ID is a deliverable line whose slot has no
\* callable handler (never registered, unregistered, or registered with a
\* null function pointer), dispatch_interrupt invokes no handler and writes
\* end-of-interrupt for that ID exactly once before it returns.
C3_UnhandledEoiOnce ==
    [][ (pc = "idle" /\ Step("dispatch_interrupt")
            /\ Deliverable(last'.irq) /\ ~Callable(handlers, last'.irq))
        => (/\ calls' = <<>>
            /\ pc' = "idle"
            /\ Writes(log') = DispatcherEoi(last'.irq))
      ]_vars

C3_Witness ==
    /\ DispatchDone
    /\ last.irq = 30
    /\ calls = <<>>
    /\ Slot(handlers, 30) = [handler |-> NULL, context |-> "c1", is_registered |-> TRUE]
    /\ Writes(log) = DispatcherEoi(30)

\* C4: when the acknowledged ID is one of the reserved 1020..1023,
\* dispatch_interrupt invokes no handler; for 1023 it writes no
\* end-of-interrupt, for 1020, 1021 and 1022 exactly one, carrying that ID.
C4_SpuriousDropped ==
    (last.op = "dispatch_interrupt" /\ last.irq \in 1020..1023)
        => /\ pc = "idle"
           /\ calls = <<>>
           /\ Writes(log) = (IF last.irq = 1023 THEN <<>> ELSE DispatcherEoi(last.irq))

C4_Witness ==
    /\ DispatchDone
    /\ last.irq = 1023
    /\ log = <<Access("dispatch_interrupt", "GICC", "r", GICC_IAR, W32(2048 + 1023))>>
    /\ Callable(handlers, 30)

\* C5: when the acknowledged ID is below 1020 but at or above the
\* implemented-line count or at or above MAX_IRQS, dispatch_interrupt writes
\* end-of-interrupt for that ID exactly once and invokes no handler, even if
\* the handler table holds a registration for that ID.
C5_OutOfRangeEoiAndDrop ==
    (last.op = "dispatch_interrupt" /\ last.irq < 1020
        /\ (last.irq >= num_irq_lines \/ last.irq >= MAX_IRQS))
        => /\ pc = "idle"
           /\ calls = <<>>
           /\ Writes(log) = DispatcherEoi(last.irq)

C5_Witness ==
    /\ DispatchDone
    /\ last.irq = 255
    /\ num_irq_lines = 64
    /\ Callable(handlers, 255)
    /\ calls = <<>>
    /\ Writes(log) = DispatcherEoi(255)

\* C6: for a line L below MAX_IRQS whose slot is registered (a
\* register_handler(L, h1, c1) succeeded and no unregister_handler(L)
\* followed), register_handler(L, h2, c2) returns false and the table still
\* holds exactly (h1, c1, registered) for L; a slot only ever changes by a
\* successful register_handler or unregister_handler on its own line, a
\* successful registration stores exactly the pair it was given, and a
\* dispatch of a deliverable L invokes the pair the slot holds.
C6_SecondRegisterRejected ==
    [][ /\ (Step("register_handler") /\ last'.irq < MAX_IRQS
              /\ Slot(handlers, last'.irq).is_registered)
           => (last'.ret = "false" /\ handlers' = handlers)
        /\ (Step("register_handler") /\ last'.ret = "true")
           => Slot(handlers', last'.irq)
                  = [handler |-> last'.h, context |-> last'.ctx, is_registered |-> TRUE]
        /\ \A i \in DOMAIN handlers \cup DOMAIN handlers' :
              Slot(handlers', i) # Slot(handlers, i)
                  => /\ Step("register_handler") \/ Step("unregister_handler")
                     /\ last'.irq = i
                     /\ last'.ret = "true"
        /\ (pc = "idle" /\ Step("dispatch_interrupt")
              /\ Deliverable(last'.irq) /\ Callable(handlers, last'.irq))
           => calls' = <<[handler |-> handlers[last'.irq].handler, irq_num |-> last'.irq,
                          context |-> handlers[last'.irq].context]>>
      ]_vars

C6_Witness ==
    /\ last = Call("register_handler", 30, "h2", NULL, "false")
    /\ Slot(handlers, 30) = [handler |-> "h1", context |-> "c1", is_registered |-> TRUE]

\* C7: for a line L below MAX_IRQS with a free slot and any handler/context
\* pair, register_handler(L, h, c) succeeds and changes only the slot of L;
\* an unregister_handler(L) right after it succeeds too and leaves the slot
\* of L equal to its state after construction, every other slot as it was,
\* and a register_handler(L, ...) right after that succeeds again.
C7_RegisterUnregisterRestores ==
    [][ /\ (Step("register_handler") /\ last'.irq < MAX_IRQS
              /\ ~Slot(handlers, last'.irq).is_registered)
           => /\ last'.ret = "true"
              /\ \A i \in (DOMAIN handlers \cup DOMAIN handlers') \ {last'.irq} :
                     Slot(handlers', i) = Slot(handlers, i)
        /\ (last.op = "register_handler" /\ last.ret = "true"
              /\ Step("unregister_handler") /\ last'.irq = last.irq)
           => /\ last'.ret = "true"
              /\ Slot(handlers', last.irq) = Slot(Constructed, last.irq)
              /\ last.irq \notin DOMAIN handlers'
              /\ \A i \in (DOMAIN handlers \cup DOMAIN handlers') \ {last.irq} :
                     Slot(handlers', i) = Slot(handlers, i)
        /\ (last.op = "unregister_handler" /\ last.ret = "true"
              /\ Step("register_handler") /\ last'.irq = last.irq)
           => last'.ret = "true"
      ]_vars

C7_Witness ==
    /\ last = Call("unregister_handler", 255, NULL, NULL, "true")
    /\ Slot(handlers, 255) = EmptySlot
    /\ Callable(handlers, 30)

\* C8 as stated: register_handler(L, h, c) returns false and leaves the
\* handler table unchanged whenever L is at or above MAX_IRQS or at or above
\* the implemented-line count, so a successful registration is always for a
\* line that enable_irq accepts and dispatch_interrupt can deliver.
C8_Original ==
    [][ /\ (Step("register_handler")
              /\ (last'.irq >= MAX_IRQS \/ last'.irq >= num_irq_lines))
           => (last'.ret = "false" /\ handlers' = handlers)
        /\ (Step("register_handler") /\ last'.ret = "true")
           => Deliverable(last'.irq)
      ]_vars

\* C8 (amended): register_handler(L, h, c) returns false and leaves the
\* handler table unchanged whenever L is at or above MAX_IRQS; a successful
\* registration is therefore always for a line below MAX_IRQS, and the table
\* never holds a slot outside [0, MAX_IRQS). The implemented-line count is
\* not looked at: the line of a successful registration is one that
\* enable_irq accepts and dispatch_interrupt delivers exactly when it is
\* also below the implemented-line count.
C8_RegisterRejectsBeyondTable ==
    [][ /\ (Step("register_handler") /\ last'.irq >= MAX_IRQS)
           => (last'.ret = "false" /\ handlers' = handlers)
        /\ (Step("register_handler") /\ last'.ret = "true")
           => /\ last'.irq < MAX_IRQS
              /\ (last'.irq < num_irq_lines)
                    <=> (DispatchPath(handlers', num_irq_lines, last'.irq)
                             \in {"call", "unhandled"})
              /\ (last'.irq < num_irq_lines)
                    <=> (enable_irq(Machine, num_irq_lines, last'.irq) # Machine)
        /\ DOMAIN handlers' \subseteq 0..(MAX_IRQS - 1)
      ]_vars

C8_Witness ==
    /\ last = Call("register_handler", 256, "h1", "c1", "false")
    /\ num_irq_lines = 288
    /\ Callable(handlers, 255)

\* the frame of enable_irq and disable_irq: nothing of the driver's own state
\* and nothing of the CPU interface changes, and the call returns
EnableFrame ==
    /\ gicc' = gicc
    /\ handlers' = handlers
    /\ num_irq_lines' = num_irq_lines
    /\ pc' = pc
    /\ last'.ret = "void"

\* C9: enable_irq(L) and disable_irq(L) write to the distributor if and only
\* if L is below both the implemented-line count and MAX_IRQS; then it is one
\* write, and only the enable bit of line L changes (set by enable_irq,
\* cleared by disable_irq); otherwise no GIC register is accessed and no
\* driver state changes; either way the call returns normally.
C9_EnableBitOnly ==
    [][ /\ Step("enable_irq")
           => /\ EnableFrame
              /\ IF Deliverable(last'.irq)
                 THEN /\ Len(log') = 1 /\ log'[1].blk = "GICD" /\ log'[1].rw = "w"
                      /\ gicd' = [gicd EXCEPT !.enabled = @ \cup {last'.irq}]
                      /\ last'.irq \in gicd'.enabled
                 ELSE log' = <<>> /\ gicd' = gicd
        /\ Step("disable_irq")
           => /\ EnableFrame
              /\ IF Deliverable(last'.irq)
                 THEN /\ Len(log') = 1 /\ log'[1].blk = "GICD" /\ log'[1].rw = "w"
                      /\ gicd' = [gicd EXCEPT !.enabled = @ \ {last'.irq}]
                      /\ last'.irq \notin gicd'.enabled
                 ELSE log' = <<>> /\ gicd' = gicd
      ]_vars

C9_Witness ==
    /\ last.op = "disable_irq"
    /\ last.irq = 255
    /\ num_irq_lines = 288
    /\ gicd.enabled = {30}
    /\ Len(log) = 1

\* C10: unregister_handler(L) on a line with no registered handler, or with L
\* at or above MAX_IRQS, returns false, leaves the handler table as it was
\* and accesses no GIC register.
C10_UnregisterUnknownRejected ==
    [][ (Step("unregister_handler")
            /\ (last'.irq >= MAX_IRQS \/ ~Slot(handlers, last'.irq).is_registered))
        => /\ last'.ret = "false"
           /\ handlers' = handlers
           /\ gicd' = gicd
           /\ gicc' = gicc
           /\ NewAccesses = <<>>
           /\ num_irq_lines' = num_irq_lines
      ]_vars

C10_Witness ==
    /\ last = Call("unregister_handler", 256, NULL, NULL, "false")
    /\ Callable(handlers, 255)
    /\ Callable(handlers, 30)

----------------------------------------------------------------------------
(* The generic timer *)

\* requested interrupt frequencies handed to GenericTimer::init
FreqInputs == {0, 1, 100, 2000000}

\* values CNTFRQ_EL0 may read as
CntfrqInputs == {0, 1000000}

\* user handler/context pairs handed to GenericTimer::init
UserInputs == {<<"timer_callback", NULL>>, <<NULL, "c1">>}

\* CNTP_CTL_EL0 as the boot firmware may leave it: off, or enabled and unmasked
BootCtl == {0, 1}

\* whether the boot firmware left the timer's private line enabled at the distributor
TimerBootEnabled == {{}, {EL1_PHYSICAL_TIMER_IRQ}}

\* Kernel::get_interrupt_controller: always the one global driver
get_interrupt_controller == "g_gic_driver"

\* one thing a timer operation did: a system-register write, the user
\* callback, a call into the controller. The value is filed under the event's
\* name: the values of different events differ in kind (a count, a result, a
\* call), and two entries of different events are unequal whatever they carry
Event(ev, val) == [ev |-> ev, val |-> (ev :> val)]

\* the world a timer function runs in: the instance, the timer registers,
\* the controller's registers with their log, and the timer's own trace
World == [timer |-> timer, cntp |-> cntp, tlog |-> <<>>,
          m |-> [gicd |-> gicd, gicc |-> gicc, log |-> <<>>]]

\* set_control with the two control bits swapped
set_control_swapped(w, enable, imask) ==
    LET ctl_val == (IF enable THEN 2 ELSE 0) + (IF imask THEN 1 ELSE 0)
    IN  [w EXCEPT !.cntp.ctl = ctl_val,
                  !.tlog = Append(@, Event("cntp_ctl_el0", ctl_val))]

\* msr cntp_ctl_el0: bit 0 ENABLE, bit 1 IMASK
set_control(w, enable, imask) ==
    LET ctl_val == (IF enable THEN 1 ELSE 0) + (IF imask THEN 2 ELSE 0)
    IN  [w EXCEPT !.cntp.ctl = ctl_val,
                  !.tlog = Append(@, Event("cntp_ctl_el0", ctl_val))]

\* msr cntp_tval_el0: the countdown starts again from ticks
WriteTval(w, ticks) ==
    [w EXCEPT !.cntp.tval = ticks,
              !.cntp.fired = FALSE,
              !.tlog = Append(@, Event("cntp_tval_el0", ticks))]

set_interval_ticks(w, ticks) ==
    WriteTval([w EXCEPT !.timer.current_interval_ticks = ticks], ticks)

\* the reload value without the clamp to one tick
TicksFor_unclamped(counter_freq, frequency_hz) == counter_freq \div frequency_hz

\* the reload value init computes
TicksFor(counter_freq, frequency_hz) ==
    LET ticks == counter_freq \div frequency_hz
    IN  IF ticks = 0 THEN 1 ELSE ticks

\* user_handler(irq_number, user_context): timer_callback counts and prints
CallUser(w) ==
    [w EXCEPT !.tlog = Append(@, Event("user_handler",
                  [handler |-> w.timer.user_handler, irq_num |-> w.timer.irq_number,
                   context |-> w.timer.user_context]))]

\* handle_interrupt with its re-arm test on a value other than the stored one
handle_interrupt_rearm_one(w) ==
    LET w1 == IF w.timer.current_interval_ticks > 0
              THEN WriteTval(w, 1)
              ELSE set_control(w, FALSE, TRUE)
        w2 == IF w1.timer.user_handler # NULL THEN CallUser(w1) ELSE w1
    IN  IF get_interrupt_controller # NULL
        THEN [w2 EXCEPT !.m = end_of_interrupt(@, w.timer.irq_number),
                        !.tlog = Append(@, Event("end_of_interrupt", w.timer.irq_number))]
        ELSE w2

\* handle_interrupt signalling end-of-interrupt before it calls the user
handle_interrupt_eoi_first(w) ==
    LET w1 == IF w.timer.current_interval_ticks > 0
              THEN WriteTval(w, w.timer.current_interval_ticks)
              ELSE set_control(w, FALSE, TRUE)
        w2 == [w1 EXCEPT !.m = end_of_interrupt(@, w.timer.irq_number),
                         !.tlog = Append(@, Event("end_of_interrupt", w.timer.irq_number))]
    IN  IF w2.timer.user_handler # NULL THEN CallUser(w2) ELSE w2

\* handle_interrupt that forgets the re-arm
handle_interrupt_no_rearm(w) ==
    LET w2 == IF w.timer.user_handler # NULL THEN CallUser(w) ELSE w
    IN  [w2 EXCEPT !.m = end_of_interrupt(@, w.timer.irq_number),
                   !.tlog = Append(@, Event("end_of_interrupt", w.timer.irq_number))]

handle_interrupt(w) ==
    LET w1 == IF w.timer.current_interval_ticks > 0
              THEN WriteTval(w, w.timer.current_interval_ticks)
              ELSE set_control(w, FALSE, TRUE)
        w2 == IF w1.timer.user_handler # NULL THEN CallUser(w1) ELSE w1
    IN  IF get_interrupt_controller # NULL
        THEN [w2 EXCEPT !.m = end_of_interrupt(@, w.timer.irq_number),
                        !.tlog = Append(@, Event("end_of_interrupt", w.timer.irq_number))]
        ELSE w2

\* generic_timer_irq_trampoline(irq_num, context): context is the instance
generic_timer_irq_trampoline(w, context) ==
    IF context # NULL THEN handle_interrupt(w) ELSE w

\* stop that leaves the interrupt unmasked
stop_unmasked(w, n) ==
    LET w1 == set_control(w, FALSE, FALSE)
    IN  IF get_interrupt_controller # NULL
        THEN [w1 EXCEPT !.m = disable_irq(@, n, w.timer.irq_number),
                        !.tlog = Append(@, Event("disable_irq", w.timer.irq_number))]
        ELSE w1

stop(w, n) ==
    LET w1 == set_control(w, FALSE, TRUE)
    IN  IF get_interrupt_controller # NULL
        THEN [w1 EXCEPT !.m = disable_irq(@, n, w.timer.irq_number),
                        !.tlog = Append(@, Event("disable_irq", w.timer.irq_number))]
        ELSE w1

\* a timer call ends in Kernel::panic
Panicked(call) ==
    /\ halted' = TRUE
    /\ tlast' = call
    /\ UNCHANGED <<access, spsr>>
    /\ cpu' = panic([cpu |-> cpu, klog |-> <<>>], call.ret).cpu
    /\ klog' = panic([cpu |-> cpu, klog |-> <<>>], call.ret).klog

\* the timer holds the CPU's interrupt request high: expired, enabled, not masked
TimerOutput == cntp.fired /\ cntp.ctl = 1

\* the controller forwards the timer's line: enabled at the distributor, and
\* init has switched the distributor and the CPU interface on (gic_init_global
\* unmasks the CPU's interrupts right after)
IrqRaised ==
    /\ "I" \notin cpu.daif
    /\ TimerOutput
    /\ timer.irq_number \in gicd.enabled
    /\ gicd.ctlr = W32(1)
    /\ gicc.ctlr = W32(1)

\* the controller-side bookkeeping of a step in which the timer code ran
ControllerIdle(call) ==
    /\ last' = call
    /\ calls' = <<>>
    /\ hops' = 0
    /\ irq_id' = 0
    /\ pc' = pc

TInit ==
    /\ TimerUntouched
    /\ FsUntouched
    /\ MmuUntouched
    /\ CoreUntouched
    /\ \E ctl \in BootCtl, frq \in CntfrqInputs : cntp = CntpAtBoot(ctl, frq)
    /\ handlers = Constructed
    /\ num_irq_lines = 0
    /\ \E en \in TimerBootEnabled :
          gicd = [ctlr |-> W32(0), typer |-> W32(1), enabled |-> en,
                  prio |-> Zeroed(LinesOf(W32(1))),
                  target |-> Zeroed(LinesOf(W32(1))),
                  cfg |-> Zeroed(LinesOf(W32(1)) \div 4)]
    /\ gicc = [ctlr |-> W32(0), pmr |-> W32(0), bpr |-> W32(0)]
    /\ pc = "idle"
    /\ irq_id = 0
    /\ calls = <<>>
    /\ hops = 0
    /\ log = <<>>
    /\ last = Call("GICDriver", 0, NULL, NULL, "void")

\* gic_init_global, once, at whatever point of the boot it is called
BootGicInit ==
    /\ ~halted
    /\ pc = "idle"
    /\ tpc.at = "idle"
    /\ num_irq_lines = 0
    /\ num_irq_lines' = LinesOf(gicd_read(gicd, GICD_TYPER))
    /\ Called(init(Machine), Call("init", 0, NULL, NULL, "void"))
    /\ UNCHANGED handlers

\* the mask bits _enable_cpu_interrupts may clear: the IRQ bit alone
\* (daifclr #2), or all four (daifclr #0xf)
UnmaskInputs == {{"I"}, AllMasked}

\* the core with interrupts unmasked: _enable_cpu_interrupts
enable_cpu_interrupts(c, bits) == [c EXCEPT !.daif = @ \ bits]

\* gic_init_global: g_gic_driver.enable_cpu_interrupts()
EnableCpuInterrupts ==
    /\ InGicInitGlobal
    /\ \E bits \in UnmaskInputs : cpu' = enable_cpu_interrupts(cpu, bits)
    /\ klog' = <<"enable_cpu_interrupts">>
    /\ kpc' = "gic_init_global"
    /\ UNCHANGED <<gvars, tvars, mvars, fvars, access, spsr>>

\* GenericTimer::init going on to program the timer without having
\* registered its handler
TimerInitEnter_unregistered ==
    \E frequency_hz \in FreqInputs \ {0}, hc \in UserInputs :
        /\ ~halted
        /\ ~InGicInitGlobal
        /\ pc = "idle"
        /\ tpc.at = "idle"
        /\ timer' = [timer EXCEPT !.user_handler = hc[1], !.user_context = hc[2]]
        /\ tlog' = <<>>
        /\ tlast' = TimerCall("init", frequency_hz, hc[1], hc[2], "running")
        /\ tpc' = [at |-> "registered", frequency_hz |-> frequency_hz]
        /\ UNCHANGED <<cntp, halted, gvars, mvars, fvars, kvars>>

\* GenericTimer::init up to and including the registration of the trampoline
TimerInitEnter ==
    \E frequency_hz \in FreqInputs, hc \in UserInputs :
        LET r == register_handler(handlers, timer.irq_number,
                                  "generic_timer_irq_trampoline", "global_el1_timer_instance")
        IN
        /\ ~halted
        /\ ~InGicInitGlobal
        /\ UNCHANGED <<mvars, fvars, kpc, access, spsr>>
        /\ pc = "idle"
        /\ tpc.at = "idle"
        /\ IF frequency_hz = 0
           THEN /\ tlast' = TimerCall("init", frequency_hz, hc[1], hc[2], "returned")
                /\ tlog' = <<>>
                /\ UNCHANGED <<timer, cntp, halted, tpc, gvars, cpu, klog>>
           ELSE /\ timer' = [timer EXCEPT !.user_handler = hc[1], !.user_context = hc[2]]
                /\ IF get_interrupt_controller = NULL
                   THEN /\ Panicked(TimerCall("init", frequency_hz, hc[1], hc[2], "panic: no IC"))
                        /\ tlog' = <<>>
                        /\ UNCHANGED <<cntp, tpc, gvars>>
                   ELSE /\ handlers' = r.handlers
                        /\ ControllerIdle(Call("register_handler", timer.irq_number,
                                               "generic_timer_irq_trampoline",
                                               "global_el1_timer_instance", r.ret))
                        /\ log' = <<>>
                        /\ tlog' = <<Event("register_handler", r.ret)>>
                        /\ UNCHANGED <<cntp, num_irq_lines, gicd, gicc>>
                        /\ IF r.ret = "false"
                           THEN /\ Panicked(TimerCall("init", frequency_hz, hc[1], hc[2],
                                                      "panic: GIC registration"))
                                /\ UNCHANGED tpc
                           ELSE /\ tlast' = TimerCall("init", frequency_hz, hc[1], hc[2], "running")
                                /\ tpc' = [at |-> "registered", frequency_hz |-> frequency_hz]
                                /\ UNCHANGED <<halted, cpu, klog>>

\* GenericTimer::init going on to program the timer without looking at the
\* counter frequency it read
TimerInitProgram_no_check ==
    LET w == set_interval_ticks(World,
                                TicksFor(cntp.frq, tpc.frequency_hz))
    IN
    /\ ~halted
    /\ UNCHANGED <<mvars, fvars, kvars>>
    /\ pc = "idle"
    /\ tpc.at = "registered"
    /\ timer' = w.timer
    /\ cntp' = w.cntp
    /\ tlog' = w.tlog
    /\ tpc' = [tpc EXCEPT !.at = "programmed"]
    /\ tlast' = TimerCall("init", tpc.frequency_hz, timer.user_handler,
                          timer.user_context, "running")
    /\ UNCHANGED halted
    /\ UNCHANGED gvars

\* GenericTimer::init: the counter frequency, the reload value, set_interval_ticks
TimerInitProgram ==
    LET counter_freq == cntp.frq
        w == set_interval_ticks(World,
                                TicksFor(counter_freq, tpc.frequency_hz))
    IN
    /\ ~halted
    /\ UNCHANGED <<mvars, fvars, kpc, access, spsr>>
    /\ pc = "idle"
    /\ tpc.at = "registered"
    /\ IF counter_freq = 0
       THEN /\ Panicked(TimerCall("init", tpc.frequency_hz, timer.user_handler,
                                      timer.user_context, "panic: CNTFRQ_EL0 is 0"))
            /\ tlog' = <<>>
            /\ UNCHANGED <<timer, cntp, tpc>>
       ELSE /\ timer' = w.timer
            /\ cntp' = w.cntp
            /\ tlog' = w.tlog
            /\ tpc' = [tpc EXCEPT !.at = "programmed"]
            /\ tlast' = TimerCall("init", tpc.frequency_hz, timer.user_handler,
                                  timer.user_context, "running")
            /\ UNCHANGED <<halted, cpu, klog>>
    /\ UNCHANGED gvars

\* GenericTimer::init: set_control(true, false)
TimerInitControl ==
    LET w == set_control(World, TRUE, FALSE) IN
    /\ ~halted
    /\ UNCHANGED <<mvars, fvars, kvars>>
    /\ pc = "idle"
    /\ tpc.at = "programmed"
    /\ cntp' = w.cntp
    /\ tlog' = w.tlog
    /\ tpc' = [tpc EXCEPT !.at = "controlled"]
    /\ tlast' = TimerCall("init", tpc.frequency_hz, timer.user_handler,
                          timer.user_context, "running")
    /\ UNCHANGED <<timer, halted, gvars>>

\* GenericTimer::init: ic->enable_irq(irq_number), and the return
TimerInitEnable ==
    LET m == enable_irq([gicd |-> gicd, gicc |-> gicc, log |-> <<>>],
                        num_irq_lines, timer.irq_number)
    IN
    /\ ~halted
    /\ UNCHANGED <<mvars, fvars, kvars>>
    /\ pc = "idle"
    /\ tpc.at = "controlled"
    /\ gicd' = m.gicd
    /\ gicc' = m.gicc
    /\ log' = m.log
    /\ ControllerIdle(Call("enable_irq", timer.irq_number, NULL, NULL, "void"))
    /\ tlog' = Append(tlog, Event("enable_irq", timer.irq_number))
    /\ tpc' = [at |-> "idle", frequency_hz |-> tpc.frequency_hz]
    /\ tlast' = TimerCall("init", tpc.frequency_hz, timer.user_handler,
                          timer.user_context, "returned")
    /\ UNCHANGED <<timer, cntp, halted, handlers, num_irq_lines>>

\* GenericTimer::stop, called by kernel code once the system is up
TimerStop ==
    LET w == stop(World, num_irq_lines) IN
    /\ ~halted
    /\ ~InGicInitGlobal
    /\ UNCHANGED <<mvars, fvars, kvars>>
    /\ CanCall
    /\ tpc.at = "idle"
    /\ timer' = w.timer
    /\ cntp' = w.cntp
    /\ tlog' = w.tlog
    /\ gicd' = w.m.gicd
    /\ gicc' = w.m.gicc
    /\ log' = w.m.log
    /\ ControllerIdle(Call("disable_irq", timer.irq_number, NULL, NULL, "void"))
    /\ tlast' = TimerCall("stop", 0, NULL, NULL, "returned")
    /\ UNCHANGED <<halted, tpc, handlers, num_irq_lines>>

\* the countdown reaches zero
TimerExpire ==
    /\ ~cntp.fired
    /\ cntp' = [cntp EXCEPT !.fired = TRUE]
    /\ UNCHANGED <<timer, halted, tpc, tlog, tlast, gvars, mvars, fvars, kvars>>

\* GICDriver::dispatch_interrupt as the timer's interrupt finds it: the
\* acknowledge, the handler registered on the line (the trampoline into
\* handle_interrupt, whose user callback makes no call into the controller),
\* and the tail of the dispatch
DispatchTimerInterrupt(w) ==
    LET id   == IrqIdOf(W32(timer.irq_number))
        path == DispatchPath(handlers, num_irq_lines, id)
        w0   == [w EXCEPT !.m = GiccR(@, "dispatch_interrupt", GICC_IAR,
                                      W32(timer.irq_number))]
        ran  == path = "call" /\ Slot(handlers, id).handler = "generic_timer_irq_trampoline"
        w1   == IF ran THEN generic_timer_irq_trampoline(w0, Slot(handlers, id).context)
                ELSE w0
    IN  IF path \in {"call", "unhandled"}
        THEN [w1 EXCEPT !.m = DispatchTail(@, handlers, id)]
        ELSE [w1 EXCEPT !.m = DispatchDrop(@, path, id)]

\* c_irq_handler that dispatches a second time before it returns
c_irq_handler_twice(w, ic) ==
    [world |-> DispatchTimerInterrupt(DispatchTimerInterrupt(w)),
     klog |-> <<"c_irq_handler", "dispatch_interrupt", "dispatch_interrupt">>]

\* c_irq_handler: the controller's dispatch_interrupt, or a warning if there
\* is no controller
c_irq_handler(w, ic) ==
    IF ic # NULL
    THEN [world |-> DispatchTimerInterrupt(w),
          klog |-> <<"c_irq_handler", "dispatch_interrupt">>]
    ELSE [world |-> w,
          klog |-> <<"c_irq_handler", "kprintf IRQ: No interrupt controller available!">>]

\* the timer's interrupt is taken, whatever the kernel is doing, if the core
\* does not mask it: the vector stub, c_irq_handler, and the return to the
\* interrupted code with its mask bits
TimerIrq ==
    LET id   == IrqIdOf(W32(timer.irq_number))
        path == DispatchPath(handlers, num_irq_lines, id)
        ran  == path = "call" /\ Slot(handlers, id).handler = "generic_timer_irq_trampoline"
        h    == c_irq_handler(World, get_interrupt_controller)
        w2   == h.world
    IN
    /\ UNCHANGED <<mvars, fvars, cpu, kpc, access, spsr>>
    /\ pc = "idle"
    /\ IrqRaised
    /\ klog' = h.klog
    /\ timer' = w2.timer
    /\ cntp' = w2.cntp
    /\ gicd' = w2.m.gicd
    /\ gicc' = w2.m.gicc
    /\ log' = w2.m.log
    /\ tlog' = w2.tlog
    /\ tlast' = IF ran THEN TimerCall("handle_interrupt", 0, NULL, NULL, "returned")
                ELSE TimerCall("handle_interrupt", 0, NULL, NULL, "not called")
    /\ last' = Call("dispatch_interrupt", id, NULL, NULL, "void")
    /\ calls' = IF path = "call" THEN Invocation(handlers, id) ELSE <<>>
    /\ irq_id' = id
    /\ hops' = 0
    /\ pc' = pc
    /\ UNCHANGED <<halted, tpc, handlers, num_irq_lines>>

TimerNext ==
    \/ BootGicInit
    \/ EnableCpuInterrupts
    \/ TimerInitEnter
    \/ TimerInitProgram
    \/ TimerInitControl
    \/ TimerInitEnable
    \/ TimerStop
    \/ TimerExpire
    \/ TimerIrq

TimerSpec == TInit /\ [][TimerNext]_vars

----------------------------------------------------------------------------
(* C11..C19: the generic timer *)

\* the step is the timer's interrupt being taken
TimerIrqStep == IrqRaised /\ ~halted /\ tlast'.op = "handle_interrupt"

\* the step is that, and the trampoline ran handle_interrupt
HandleInterruptStep == TimerIrqStep /\ tlast'.ret = "returned"

\* the events of one kind in a timer trace
EventsOf(l, ev) == SelectSeq(l, LAMBDA e : e.ev = ev)

\* C11: on every timer interrupt with a stored reload value T > 0,
\* handle_interrupt writes exactly T to the countdown register, once, and
\* before the user callback is invoked; the stored reload value is not changed.
C11_RearmBeforeCallback ==
    [][ (HandleInterruptStep /\ timer.current_interval_ticks > 0)
        => /\ EventsOf(tlog', "cntp_tval_el0")
                  = <<Event("cntp_tval_el0", timer.current_interval_ticks)>>
           /\ tlog'[1] = Event("cntp_tval_el0", timer.current_interval_ticks)
           /\ \A i \in 1..Len(tlog') : tlog'[i].ev = "user_handler" => i > 1
           /\ cntp'.tval = timer.current_interval_ticks
           /\ ~cntp'.fired
           /\ timer'.current_interval_ticks = timer.current_interval_ticks
      ]_vars

C11_Witness ==
    /\ tlast = TimerCall("handle_interrupt", 0, NULL, NULL, "returned")
    /\ timer.current_interval_ticks = 10000
    /\ tlog = <<Event("cntp_tval_el0", 10000),
                Event("user_handler", [handler |-> "timer_callback", irq_num |-> 30,
                                       context |-> NULL]),
                Event("end_of_interrupt", 30)>>

\* C12: if the stored reload value is 0 when handle_interrupt runs, the timer
\* disables and masks itself (enable = 0, interrupt mask = 1), does not write
\* the countdown register, and does not invoke the user callback.
C12_ZeroReloadNoCallback ==
    [][ (HandleInterruptStep /\ timer.current_interval_ticks = 0)
        => /\ cntp'.ctl = 2
           /\ EventsOf(tlog', "cntp_tval_el0") = <<>>
           /\ EventsOf(tlog', "user_handler") = <<>>
      ]_vars

\* C13: each execution of handle_interrupt issues exactly one end-of-interrupt
\* for the timer's line through the controller, after the re-arm (or disable)
\* write and after the user callback has returned; and every dispatched timer
\* interrupt receives exactly one end-of-interrupt write, from handle_interrupt
\* when it ran and from the dispatcher when the line has no handler.
C13_OneEoiLast ==
    [][ /\ HandleInterruptStep
           => /\ EventsOf(tlog', "end_of_interrupt")
                     = <<Event("end_of_interrupt", timer.irq_number)>>
              /\ tlog'[Len(tlog')].ev = "end_of_interrupt"
              /\ \A i \in 1..Len(tlog') :
                     tlog'[i].ev \in {"cntp_tval_el0", "cntp_ctl_el0", "user_handler"}
                         => i < Len(tlog')
              /\ Writes(log') = <<Access("end_of_interrupt", "GICC", "w", GICC_EOIR,
                                         W32(timer.irq_number))>>
        /\ TimerIrqStep => Len(EoiWrites(log', timer.irq_number)) = 1
      ]_vars

C13_Witness ==
    /\ tlast = TimerCall("handle_interrupt", 0, NULL, NULL, "returned")
    /\ last = Call("dispatch_interrupt", 30, NULL, NULL, "void")
    /\ Len(tlog) = 3
    /\ tlog[2].ev = "user_handler"
    /\ tlog[3] = Event("end_of_interrupt", 30)
    /\ EoiWritesBy(log, 30, "end_of_interrupt") = EoiWrites(log, 30)
    /\ Len(EoiWrites(log, 30)) = 1

\* the reload value f and c call for: floor(c / f), and 1 when that is 0
IsReloadFor(t, c, f) ==
    /\ t >= 1
    /\ c >= f => (t * f <= c /\ c < (t + 1) * f)
    /\ c < f => t = 1

\* C14: for every requested frequency f > 0 and counter frequency c > 0, an
\* init that returns has stored and programmed the reload value
\* max(1, floor(c / f)): 10,000 for f = 100 and c = 1,000,000, and 1 for f > c.
C14_ReloadValue ==
    (tlast.op = "init" /\ tlast.ret = "returned" /\ tlast.frequency_hz > 0)
        => /\ cntp.frq > 0
           /\ IsReloadFor(timer.current_interval_ticks, cntp.frq, tlast.frequency_hz)
           /\ cntp.tval = timer.current_interval_ticks
           /\ (tlast.frequency_hz = 100 /\ cntp.frq = 1000000)
                  => timer.current_interval_ticks = 10000
           /\ tlast.frequency_hz > cntp.frq => timer.current_interval_ticks = 1

C14_Witness ==
    /\ tlast = TimerCall("init", 100, "timer_callback", NULL, "returned")
    /\ cntp.frq = 1000000
    /\ timer.current_interval_ticks = 10000
    /\ cntp.tval = 10000

\* C15: init called with requested frequency 0 fails fatally: the halt routine
\* is entered and init never returns to its caller.
C15_ZeroFrequencyPanics ==
    (tlast.op = "init" /\ tlast.frequency_hz = 0)
        => (halted /\ tlast.ret # "returned")

\* the step is init being entered with a non-zero frequency
InitEnterStep ==
    /\ ~halted
    /\ tpc.at = "idle"
    /\ tlast'.op = "init"
    /\ tlast'.frequency_hz # 0
    /\ last'.op = "register_handler"

\* C16: init with a non-zero frequency enters the halt routine and never
\* returns when the controller accessor yields no controller, when
\* register_handler for the timer's line returns false, or when the counter
\* frequency reads 0; the failing init then has not programmed the countdown
\* register, not written the timer's control register and not enabled the
\* line at the controller, and nothing does so after the halt.
C16_InitFailuresPanic ==
    [][ /\ (InitEnterStep /\ Slot(handlers, timer.irq_number).is_registered)
           => (halted' /\ last'.ret = "false" /\ handlers' = handlers)
        /\ (InitEnterStep /\ get_interrupt_controller = NULL) => halted'
        /\ (~halted /\ tpc.at = "registered" /\ cntp.frq = 0) => tpc' = tpc
        /\ (~halted /\ halted')
           => /\ tlast'.op = "init"
              /\ tlast'.ret \in {"panic: no IC", "panic: GIC registration",
                                 "panic: CNTFRQ_EL0 is 0"}
              /\ cntp' = cntp
              /\ gicd' = gicd
              /\ timer'.current_interval_ticks = timer.current_interval_ticks
              /\ EventsOf(tlog', "cntp_tval_el0") = <<>>
              /\ EventsOf(tlog', "cntp_ctl_el0") = <<>>
              /\ EventsOf(tlog', "enable_irq") = <<>>
        /\ halted
           => /\ halted'
              /\ tpc.at \in {"idle", "registered"}
              /\ tpc' = tpc
              /\ tlast' = tlast
              /\ cntp'.tval = cntp.tval
              /\ cntp'.ctl = cntp.ctl
              /\ gicd' = gicd
      ]_vars

C16_Witness ==
    /\ halted
    /\ tlast.ret = "panic: CNTFRQ_EL0 is 0"
    /\ tpc.at = "registered"
    /\ Slot(handlers, 30).is_registered
    /\ timer.current_interval_ticks = 0
    /\ 30 \notin gicd.enabled
    /\ cntp.ctl = 0

\* the step is init returning to its caller after it has registered its handler
InitReturnStep == ~halted /\ tpc.at = "controlled" /\ tpc'.at = "idle"

\* C17 as stated: whenever init returns normally after registering its
\* handler, the countdown register holds the computed reload value, the
\* control register has enable = 1 and mask = 0, and line 30 is enabled at
\* the controller, in whichever order the controller's init and the timer's
\* init were called.
C17_Original ==
    [][ InitReturnStep
        => /\ cntp'.tval = TicksFor(cntp.frq, tpc.frequency_hz)
           /\ cntp'.ctl = 1
           /\ timer.irq_number \in gicd'.enabled
      ]_vars

\* C17 (amended): whenever init returns normally after registering its
\* handler, the countdown register holds the computed reload value and the
\* control register has enable = 1 and mask = 0; line 30 is enabled at the
\* controller provided the controller's init ran before the timer's init;
\* when the timer's init runs first, enable_irq rejects the line and the
\* distributor is left as it was.
C17_InitLeavesTimerRunning ==
    [][ InitReturnStep
        => /\ cntp'.tval = timer.current_interval_ticks
           /\ IsReloadFor(cntp'.tval, cntp.frq, tpc.frequency_hz)
           /\ cntp'.ctl = 1
           /\ Booted => timer.irq_number \in gicd'.enabled
           /\ ~Booted => (gicd' = gicd /\ log' = <<>>)
      ]_vars

C17_Witness ==
    /\ tlast = TimerCall("init", 1, "timer_callback", NULL, "returned")
    /\ Booted
    /\ cntp.tval = 1000000
    /\ cntp.ctl = 1
    /\ 30 \in gicd.enabled
    /\ last.op = "enable_irq"

\* C18: stop sets the control register to enable = 0 and mask = 1 and
\* disables the timer's line at the controller, and leaves the stored reload
\* value, the user handler and context and the controller's registration
\* for the line unchanged.
C18_StopFrame ==
    [][ (tlast'.op = "stop" /\ ~halted /\ tpc.at = "idle" /\ last'.op = "disable_irq")
        => /\ cntp'.ctl = 2
           /\ timer.irq_number \notin gicd'.enabled
           /\ gicd' = [gicd EXCEPT !.enabled = @ \ {timer.irq_number}]
           /\ timer' = timer
           /\ handlers' = handlers
           /\ cntp'.tval = cntp.tval
           /\ gicc' = gicc
      ]_vars

C18_Witness ==
    /\ tlast.op = "stop"
    /\ cntp.ctl = 2
    /\ 30 \notin gicd.enabled
    /\ timer.current_interval_ticks = 10000
    /\ timer.user_handler = "timer_callback"
    /\ Callable(handlers, 30)
    /\ Len(log) = 1

----------------------------------------------------------------------------
(* C19: the timer under kernel_main's order of calls *)

\* kernel_main calls system_timer_init_global once, after gic_init_global
KernelTimerInit ==
    /\ Booted
    /\ tlast = TimerCall("GenericTimer", 0, NULL, NULL, "void")
    /\ TimerInitEnter

TimerLiveNext ==
    \/ BootGicInit
    \/ EnableCpuInterrupts
    \/ KernelTimerInit
    \/ TimerInitProgram
    \/ TimerInitControl
    \/ TimerInitEnable
    \/ TimerStop
    \/ TimerExpire
    \/ TimerIrq

\* the counter keeps counting, and a raised interrupt is eventually taken
TimerLiveSpec ==
    /\ TInit
    /\ [][TimerLiveNext]_vars
    /\ WF_vars(TimerExpire)
    /\ WF_vars(TimerIrq)

\* init has returned to kernel_main with the timer set up
InitSucceeded ==
    tlast.op = "init" /\ tlast.ret = "returned" /\ tlast.frequency_hz > 0

\* handle_interrupt has just run: the countdown is re-armed with the stored
\* reload value, and the user callback, if there is one, was called
Ticked ==
    /\ tlast = TimerCall("handle_interrupt", 0, NULL, NULL, "returned")
    /\ timer.current_interval_ticks > 0
    /\ cntp.tval = timer.current_interval_ticks
    /\ ~cntp.fired
    /\ cntp.ctl = 1
    /\ tlog[1] = Event("cntp_tval_el0", timer.current_interval_ticks)
    /\ timer.user_handler # NULL
           => \E i \in 1..Len(tlog) : tlog[i].ev = "user_handler"

\* the reload values init computes from the inputs
ReloadValues ==
    {TicksFor(c, f) : c \in CntfrqInputs \ {0}, f \in FreqInputs \ {0}}

\* C19: after a successful init, as long as stop is not called and every
\* raised timer interrupt is eventually dispatched, the countdown expires and
\* handle_interrupt re-arms it with the same reload value again and again:
\* interrupts and user callbacks occur infinitely often.
C19_PeriodicForever ==
    \A T \in ReloadValues :
        []((InitSucceeded /\ timer.current_interval_ticks = T)
              => \/ <>(tlast.op = "stop")
                 \/ /\ []<>(Ticked /\ cntp.tval = T)
                    /\ []<>(cntp.fired /\ ~Ticked))

C19_Witness ==
    /\ Ticked
    /\ timer.user_handler = "timer_callback"
    /\ timer.current_interval_ticks = 10000
    /\ Callable(handlers, 30)

----------------------------------------------------------------------------
(* The page tables: MMU::setup_page_tables *)

PAGE_TABLE_ENTRIES == 512
PAGE_SIZE_2MB == 2097152
PAGE_SIZE_1GB == 1073741824

PAGE_SIZE_4KB == 4096

MAIR_IDX_DEVICE_NGNRNE == 0
MAIR_IDX_NORMAL_NC == 1
MAIR_IDX_NORMAL_C == 2

MAIR_ATTR_DEVICE_NGNRNE == 0
MAIR_ATTR_NORMAL_NC == 68
MAIR_ATTR_NORMAL_C == 255

\* A 64-bit address is the pair <<a \div 2 MiB, a % 2 MiB>>, so that the
\* peripheral window above 2^31 can be written down; a 64-bit descriptor is
\* the set of its one-bits.
Addr(n) == <<n \div PAGE_SIZE_2MB, n % PAGE_SIZE_2MB>>

AddrPlus(a, n) == <<a[1] + (a[2] + n) \div PAGE_SIZE_2MB, (a[2] + n) % PAGE_SIZE_2MB>>

AddrLess(a, b) == a[1] < b[1] \/ (a[1] = b[1] /\ a[2] < b[2])

AddrAtMost(a, b) == ~AddrLess(b, a)

\* the one-bits of a number below 2^31
BitsOfNat(n) == {b \in 0..30 : (n \div 2^b) % 2 = 1}

\* x << k in 64 bits
Shl64(bits, k) == {b + k : b \in bits} \cap (0..63)

\* the address as a 64-bit word
AddrBits(a) == BitsOfNat(a[2]) \cup Shl64(BitsOfNat(a[1]), 21)

\* 0xFE000000 and 0xFFFFFFFF
RPI4_PERIPHERAL_BASE_PHYS == <<2032, 0>>
RPI4_PERIPHERAL_END_PHYS == <<2047, 2097151>>

PTE_VALID == Shl64(BitsOfNat(1), 0)
PTE_TABLE_OR_PAGE == Shl64(BitsOfNat(1), 1)
PTE_ATTR_INDX(idx) == Shl64(BitsOfNat(idx % 8), 2)
PTE_AP_EL1_RW_EL0_NONE == Shl64(BitsOfNat(0), 6)
PTE_SH_INNER_SHAREABLE == Shl64(BitsOfNat(3), 8)
PTE_AF == Shl64(BitsOfNat(1), 10)
PTE_PXN == Shl64(BitsOfNat(1), 53)
PTE_UXN == Shl64(BitsOfNat(1), 54)

\* the block lies in the peripheral window
InPeripherals(current_pa) ==
    /\ AddrAtMost(RPI4_PERIPHERAL_BASE_PHYS, current_pa)
    /\ AddrAtMost(AddrPlus(current_pa, PAGE_SIZE_2MB - 1), RPI4_PERIPHERAL_END_PHYS)

\* the block's first or last byte lies in [KERNEL_START, KERNEL_END)
InKernelImage(current_pa, img) ==
    \/ /\ AddrAtMost(img.KERNEL_START, current_pa)
       /\ AddrLess(current_pa, img.KERNEL_END)
    \/ /\ AddrAtMost(img.KERNEL_START, AddrPlus(current_pa, PAGE_SIZE_2MB - 1))
       /\ AddrLess(AddrPlus(current_pa, PAGE_SIZE_2MB - 1), img.KERNEL_END)

\* the branch the first loop takes for a block
Classify0(current_pa, img) ==
    IF InPeripherals(current_pa) THEN "device"
    ELSE IF InKernelImage(current_pa, img) THEN "kernel"
    ELSE "ram"

\* the branch the second loop takes for a block
Classify1(current_pa) ==
    IF InPeripherals(current_pa) THEN "device" ELSE "ram"

\* the flags each branch builds
FlagsOf(branch) ==
    LET flags == PTE_VALID \cup PTE_AF \cup PTE_SH_INNER_SHAREABLE IN
    IF branch = "device"
    THEN flags \cup PTE_ATTR_INDX(MAIR_IDX_DEVICE_NGNRNE) \cup PTE_AP_EL1_RW_EL0_NONE
               \cup (PTE_PXN \cup PTE_UXN)
    ELSE IF branch = "kernel"
    THEN (((flags \cup PTE_ATTR_INDX(MAIR_IDX_NORMAL_C)) \cup PTE_AP_EL1_RW_EL0_NONE)
               \ PTE_PXN) \cup PTE_UXN
    ELSE flags \cup PTE_ATTR_INDX(MAIR_IDX_NORMAL_C) \cup PTE_AP_EL1_RW_EL0_NONE
               \cup (PTE_PXN \cup PTE_UXN)

\* current_pa of the first loop
current_pa_0(i) == Addr(i * PAGE_SIZE_2MB)

\* the second loop without the base of its gigabyte
current_pa_1_no_base(i) == Addr(i * PAGE_SIZE_2MB)

\* current_pa of the second loop
current_pa_1(i) == AddrPlus(Addr(PAGE_SIZE_1GB), i * PAGE_SIZE_2MB)

\* l2_page_table_0[i] = current_pa | flags
L2Entry0(i, img) == AddrBits(current_pa_0(i)) \cup FlagsOf(Classify0(current_pa_0(i), img))

\* l2_page_table_1[i] = current_pa | flags
L2Entry1(i) == AddrBits(current_pa_1(i)) \cup FlagsOf(Classify1(current_pa_1(i)))

\* the identity map the kernel runs under: a virtual address is its physical one
get_physical_address(virt_addr) == virt_addr

\* l1_page_table[0] = l2_pt0_phys | PTE_VALID | PTE_TABLE_OR_PAGE, and [1] likewise
L1Entry(i, img) ==
    IF i = 0
    THEN AddrBits(get_physical_address(img.l2_page_table_0)) \cup PTE_VALID
             \cup PTE_TABLE_OR_PAGE
    ELSE IF i = 1
    THEN AddrBits(get_physical_address(img.l2_page_table_1)) \cup PTE_VALID
             \cup PTE_TABLE_OR_PAGE
    ELSE {}

\* the tables as setup_page_tables leaves them, and as .bss has them before
l1_page_table ==
    [i \in 0..(PAGE_TABLE_ENTRIES - 1) |->
        IF page_tables = "populated" THEN L1Entry(i, image) ELSE {}]

l2_page_table_0 ==
    [i \in 0..(PAGE_TABLE_ENTRIES - 1) |->
        IF page_tables = "populated" THEN L2Entry0(i, image) ELSE {}]

l2_page_table_1 ==
    [i \in 0..(PAGE_TABLE_ENTRIES - 1) |->
        IF page_tables = "populated" THEN L2Entry1(i) ELSE {}]

\* kernel images the linker script may lay out: <<KERNEL_START, KERNEL_END>> in bytes
ImageInputs ==
    { <<524288, 1048576>>,          \* 0x80000 .. 0x100000, inside one block
      <<524288, 2621440>>,          \* 0x80000 .. 0x280000, across a block boundary
      <<2097152, 4194304>>,         \* exactly block 1
      <<0, 6291456>>,               \* blocks 0 to 2
      <<1048576, 7340032>>,         \* 0x100000 .. 0x700000
      <<1071644672, 1073741824>>,   \* the last block of the first gigabyte
      <<1072693248, 1073741824>>,   \* the upper half of that block
      <<524288, 524288>> }          \* an empty image

\* the blocks a walk is made for: <<table, index>>
WalkInputs ==
    {0, 1} \X {0, 1, 2, 3, 255, PAGE_TABLE_ENTRIES - 2, PAGE_TABLE_ENTRIES - 1}

\* where the linker may put the three tables: l1, l2_0, l2_1, 4 KiB-aligned
TableInputs ==
    { <<589824, 593920, 598016>>,       \* 0x90000, 0x91000, 0x92000
      <<2097152, 2101248, 2093056>> }   \* 0x200000, 0x201000, 0x1FF000

\* SCTLR_EL1 as the firmware may leave it: MMU and caches off, or on
BootSctlr == {{}, {0, 2, 12}}

\* virtual addresses the core may present, in 2 MiB blocks: inside the first
\* and the second gigabyte, 2 GiB, 3 GiB, the peripherals at 0xFE200000 and
\* 0xFF800000, 512 GiB, 512 GiB + 1 GiB, 1 TiB
VaInputs == {0, 1, 2, 511, 512, 513, 1023, 1024, 1536, 2033, 2044,
             262144, 262656, 524288}

\* the value of bits lo..hi of a 64-bit word
RECURSIVE FieldOf(_, _, _)
FieldOf(bits, lo, hi) ==
    IF hi < lo THEN 0
    ELSE (IF hi \in bits THEN 2^(hi - lo) ELSE 0) + FieldOf(bits, lo, hi - 1)

\* mair_val of configure_translation_control
MairValue ==
    Shl64(BitsOfNat(MAIR_ATTR_DEVICE_NGNRNE), MAIR_IDX_DEVICE_NGNRNE * 8)
        \cup Shl64(BitsOfNat(MAIR_ATTR_NORMAL_NC), MAIR_IDX_NORMAL_NC * 8)
        \cup Shl64(BitsOfNat(MAIR_ATTR_NORMAL_C), MAIR_IDX_NORMAL_C * 8)

\* tcr_val of configure_translation_control: T0SZ = 16, TG0 = 4 KiB, SH0,
\* ORGN0, IRGN0, EPD1, IPS = 40 bits
TcrValue ==
    Shl64(BitsOfNat(16), 0) \cup Shl64(BitsOfNat(0), 14) \cup Shl64(BitsOfNat(3), 12)
        \cup Shl64(BitsOfNat(1), 10) \cup Shl64(BitsOfNat(1), 8)
        \cup Shl64(BitsOfNat(1), 23) \cup Shl64(BitsOfNat(2), 32)

\* MMU::init_and_enable up to the call of setup_page_tables
init_and_enable(c) ==
    [c EXCEPT !.klog = <<"mrs sctlr_el1">>
                  \o (IF 0 \in c.cpu.sctlr THEN <<"kprintf Warning - MMU already enabled">>
                      ELSE <<>>)]

\* MMU::setup_page_tables, as seen from the core
setup_page_tables(c) ==
    [c EXCEPT !.klog = @ \o <<"kmemset l1_page_table", "kmemset l2_page_table_0",
                              "kmemset l2_page_table_1", "write l1_page_table",
                              "write l2_page_table_0", "write l2_page_table_1">>]

\* MMU::configure_translation_control
configure_translation_control(c, img) ==
    [cpu |-> [c.cpu EXCEPT !.mair = MairValue, !.tcr = TcrValue,
                           !.ttbr0 = AddrBits(get_physical_address(img.l1_page_table))],
     klog |-> c.klog \o <<"msr mair_el1", "msr tcr_el1", "msr ttbr0_el1">>]

\* what SCTLR_EL1 holds after the write: the value, or the value without M
\* where the enable does not take effect
SctlrAfter(sctlr_val, takes_effect) ==
    IF takes_effect THEN sctlr_val ELSE sctlr_val \ {0}

\* enable_mmu_and_caches that does not look at what it reads back
enable_mmu_and_caches_no_check(c, takes_effect) ==
    LET sctlr_val == c.cpu.sctlr \cup {0} \cup {2} \cup {12}
        final_sctlr == SctlrAfter(sctlr_val, takes_effect)
    IN  [cpu |-> [c.cpu EXCEPT !.sctlr = final_sctlr],
         klog |-> c.klog \o <<"dsb ish", "isb", "tlbi vmalle1is", "dsb ish", "isb",
                              "mrs sctlr_el1", "mrs sctlr_el1", "msr sctlr_el1", "isb",
                              "mrs sctlr_el1">>]

\* enable_mmu_and_caches that sets the enable bits before it invalidates the TLB
enable_mmu_and_caches_enable_first(c, takes_effect) ==
    LET sctlr_val == c.cpu.sctlr \cup {0} \cup {2} \cup {12}
        final_sctlr == SctlrAfter(sctlr_val, takes_effect)
        done == [cpu |-> [c.cpu EXCEPT !.sctlr = final_sctlr],
                 klog |-> c.klog \o <<"mrs sctlr_el1", "mrs sctlr_el1", "msr sctlr_el1",
                                      "isb", "dsb ish", "isb", "tlbi vmalle1is",
                                      "dsb ish", "isb", "mrs sctlr_el1">>]
    IN  IF 0 \notin final_sctlr THEN panic(done, "MMU FAILED TO ENABLE!") ELSE done

\* MMU::enable_mmu_and_caches: barriers, TLB invalidate, barriers, SCTLR_EL1
\* read, M, C and I set, written, isb, read back, panic if M reads 0
enable_mmu_and_caches(c, takes_effect) ==
    LET sctlr_val == c.cpu.sctlr \cup {0} \cup {2} \cup {12}
        final_sctlr == SctlrAfter(sctlr_val, takes_effect)
        done == [cpu |-> [c.cpu EXCEPT !.sctlr = final_sctlr],
                 klog |-> c.klog \o <<"dsb ish", "isb", "tlbi vmalle1is", "dsb ish",
                                      "isb", "mrs sctlr_el1", "mrs sctlr_el1",
                                      "msr sctlr_el1", "isb", "mrs sctlr_el1">>]
    IN  IF 0 \notin final_sctlr THEN panic(done, "MMU FAILED TO ENABLE!") ELSE done

\* the core has entered Kernel::panic's wfi loop
Halts(c) == c.klog # <<>> /\ c.klog[Len(c.klog)] = "wfi"

\* the level a walk starts at with the 4 KiB granule, from TCR_EL1.T0SZ
StartLevel(tcr) ==
    LET t0sz == FieldOf(tcr, 0, 5) IN
    IF t0sz <= 24 THEN 0 ELSE IF t0sz <= 33 THEN 1 ELSE 2

\* the number of 2 MiB blocks in the input address range, 2^(64 - T0SZ) bytes
InputBlocks(tcr) == 2^(43 - FieldOf(tcr, 0, 5))

\* the index a level takes from the address: bits 47:39, 38:30, 29:21
IndexAt(level, vb) ==
    IF level = 0 THEN (vb \div (PAGE_TABLE_ENTRIES * PAGE_TABLE_ENTRIES)) % PAGE_TABLE_ENTRIES
    ELSE IF level = 1 THEN (vb \div PAGE_TABLE_ENTRIES) % PAGE_TABLE_ENTRIES
    ELSE vb % PAGE_TABLE_ENTRIES

\* the table that lies at a table address (bits 47:12 of a table descriptor
\* or of TTBR0_EL1)
TableAt(bits, img) ==
    IF bits \cap (12..47) = AddrBits(img.l1_page_table) THEN "l1_page_table"
    ELSE IF bits \cap (12..47) = AddrBits(img.l2_page_table_0) THEN "l2_page_table_0"
    ELSE IF bits \cap (12..47) = AddrBits(img.l2_page_table_1) THEN "l2_page_table_1"
    ELSE "unknown"

\* the descriptor a walk reads
EntryOf(table, index) ==
    IF page_tables # "populated" THEN {}
    ELSE IF table = "l1_page_table" THEN L1Entry(index, image)
    ELSE IF table = "l2_page_table_0" THEN L2Entry0(index, image)
    ELSE L2Entry1(index)

\* the stage-1 walk of the architecture for the 4 KiB granule: an invalid
\* descriptor faults; bits 1:0 = 11 is a table at levels 0 to 2; bits 1:0 = 01
\* is a 1 GiB block at level 1 (output address bits 47:30), a 2 MiB block at
\* level 2 (bits 47:21), and faults at level 0
RECURSIVE Walk(_, _, _, _)
Walk(table, level, vb, img) ==
    LET index == IndexAt(level, vb)
        descriptor == EntryOf(table, index)
        here == [va |-> vb, kind |-> "fault", level |-> level, table |-> table,
                 index |-> index, descriptor |-> descriptor, pa |-> 0]
    IN  IF table = "unknown" THEN [here EXCEPT !.kind = "unknown", !.descriptor = {}]
        ELSE IF 0 \notin descriptor THEN here
        ELSE IF 1 \in descriptor
        THEN IF level < 2 THEN Walk(TableAt(descriptor, img), level + 1, vb, img)
             ELSE [here EXCEPT !.kind = "unknown"]
        ELSE IF level = 0 THEN here
        ELSE IF level = 1
        THEN [here EXCEPT !.kind = "block",
                          !.pa = FieldOf(descriptor, 30, 47) * PAGE_TABLE_ENTRIES
                                     + (vb % PAGE_TABLE_ENTRIES)]
        ELSE [here EXCEPT !.kind = "block", !.pa = FieldOf(descriptor, 21, 47)]

\* the translation of a virtual block through TTBR0_EL1
Translate(vb, c, img) ==
    IF vb >= InputBlocks(c.tcr)
    THEN [va |-> vb, kind |-> "fault", level |-> 0, table |-> "none", index |-> 0,
          descriptor |-> {}, pa |-> 0]
    ELSE Walk(TableAt(c.ttbr0, img), StartLevel(c.tcr), vb, img)

MmuInit ==
    /\ handlers = Constructed
    /\ num_irq_lines = 0
    /\ gicd = [typer |-> W32(1), ctlr |-> W32(0), enabled |-> {},
               prio |-> Zeroed(1), target |-> Zeroed(1), cfg |-> Zeroed(1)]
    /\ gicc = [ctlr |-> W32(0), pmr |-> W32(0), bpr |-> W32(0)]
    /\ pc = "idle"
    /\ irq_id = 0
    /\ calls = <<>>
    /\ hops = 0
    /\ log = <<>>
    /\ last = Call("GICDriver", 0, NULL, NULL, "void")
    /\ TimerUntouched
    /\ FsUntouched
    /\ \E sctlr \in BootSctlr : cpu = CoreAtBoot(AllMasked, sctlr)
    /\ kpc = "start"
    /\ klog = <<>>
    /\ access = NoAccess
    /\ spsr = <<>>
    /\ cntp = CntpAtBoot(0, 1000000)
    /\ \E img \in ImageInputs, t \in TableInputs :
           image = [KERNEL_START |-> Addr(img[1]), KERNEL_END |-> Addr(img[2]),
                    l1_page_table |-> Addr(t[1]), l2_page_table_0 |-> Addr(t[2]),
                    l2_page_table_1 |-> Addr(t[3])]
    /\ page_tables = "bss"
    /\ walk = NoWalk

\* kernel_main calls MMU::init_and_enable: SCTLR_EL1 is read, and a warning
\* printed if the MMU is on already
InitAndEnableEnter ==
    /\ kpc = "start"
    /\ ~halted
    /\ kpc' = "init_and_enable"
    /\ klog' = init_and_enable([cpu |-> cpu, klog |-> klog]).klog
    /\ UNCHANGED <<cpu, access, spsr, halted, mvars, fvars, gvars, timer, cntp, tpc, tlog, tlast>>

\* setup_page_tables that is also run again once the MMU is on
SetupPageTables_rebuilds ==
    /\ kpc \in {"init_and_enable", "MMU::init_and_enable"}
    /\ ~halted
    /\ kpc' = IF kpc = "init_and_enable" THEN "setup_page_tables" ELSE kpc
    /\ page_tables' = "populated"
    /\ klog' = setup_page_tables([cpu |-> cpu,
                                  klog |-> IF kpc = "init_and_enable" THEN klog
                                           ELSE <<>>]).klog
    /\ UNCHANGED <<fvars, image, walk, gvars, tvars, cpu, access, spsr>>

\* MMU::setup_page_tables: the three tables are cleared and filled
SetupPageTables ==
    /\ kpc = "init_and_enable"
    /\ kpc' = "setup_page_tables"
    /\ page_tables' = "populated"
    /\ klog' = setup_page_tables([cpu |-> cpu, klog |-> klog]).klog
    /\ UNCHANGED <<fvars, image, walk, gvars, tvars, cpu, access, spsr>>

\* MMU::configure_translation_control: MAIR_EL1, TCR_EL1, TTBR0_EL1
ConfigureTranslationControl ==
    /\ kpc = "setup_page_tables"
    /\ kpc' = "configure_translation_control"
    /\ cpu' = configure_translation_control([cpu |-> cpu, klog |-> klog], image).cpu
    /\ klog' = configure_translation_control([cpu |-> cpu, klog |-> klog], image).klog
    /\ UNCHANGED <<mvars, fvars, gvars, tvars, access, spsr>>

\* MMU::enable_mmu_and_caches, and the return of init_and_enable to kernel_main
EnableMmuAndCaches ==
    \E takes_effect \in BOOLEAN :
        LET c == enable_mmu_and_caches([cpu |-> cpu, klog |-> klog], takes_effect) IN
        /\ kpc = "configure_translation_control"
        /\ ~halted
        /\ cpu' = c.cpu
        /\ klog' = c.klog
        /\ halted' = Halts(c)
        /\ kpc' = IF Halts(c) THEN kpc ELSE "MMU::init_and_enable"
        /\ UNCHANGED <<mvars, fvars, gvars, timer, cntp, tpc, tlog, tlast, access, spsr>>

\* the core translates an address under the tables the kernel installed
AddressTranslation ==
    \E vb \in VaInputs :
        /\ kpc \notin {"start", "init_and_enable", "setup_page_tables",
                        "configure_translation_control"}
        /\ 0 \in cpu.sctlr
        /\ ~halted
        /\ LET t == Translate(vb, cpu, image) IN
               /\ access' = [va |-> t.va, kind |-> t.kind, level |-> t.level, pa |-> t.pa]
               /\ walk' = [table |-> t.table, index |-> t.index,
                           descriptor |-> t.descriptor]
        /\ UNCHANGED <<cpu, kpc, klog, spsr, fvars, image, page_tables, gvars, tvars>>

\* the kernel reads the second-level descriptor of a block; no translation
\* of the core is then the last reader of the tables
TableWalk ==
    \E t \in WalkInputs :
        /\ walk' = [table |-> IF t[1] = 0 THEN "l2_page_table_0" ELSE "l2_page_table_1",
                    index |-> t[2],
                    descriptor |-> IF t[1] = 0 THEN l2_page_table_0[t[2]]
                                   ELSE l2_page_table_1[t[2]]]
        /\ access' = NoAccess
        /\ UNCHANGED <<fvars, image, page_tables, gvars, tvars, cpu, kpc, klog, spsr>>

MmuNext ==
    \/ InitAndEnableEnter
    \/ SetupPageTables
    \/ ConfigureTranslationControl
    \/ EnableMmuAndCaches
    \/ TableWalk
    \/ AddressTranslation

MmuSpec == MmuInit /\ [][MmuNext]_vars

\* bits 47:21 of a second-level block descriptor
OutputAddressBits == 21..47

\* the output address of a second-level block descriptor
OutputAddress(descriptor) == descriptor \cap OutputAddressBits

\* the 2 MiB-aligned block address number b * 2 MiB, as a 64-bit word
BlockAddress(b) == {k + 21 : k \in BitsOfNat(b)}

\* C20: for every 2 MiB-aligned block address A in [0, 2 GiB), the
\* second-level descriptor setup_page_tables writes for A has output address
\* exactly A: entry i of table 0 maps i * 2 MiB and entry i of table 1 maps
\* 1 GiB + i * 2 MiB, whichever branch classifies the block, and the
\* attribute bits of no branch touch the output-address bits.
C20_IdentityMapping ==
    page_tables = "populated"
        => /\ \A i \in 0..(PAGE_TABLE_ENTRIES - 1) :
                  /\ OutputAddress(l2_page_table_0[i]) = BlockAddress(i)
                  /\ OutputAddress(l2_page_table_1[i]) = BlockAddress(PAGE_TABLE_ENTRIES + i)
                  /\ l2_page_table_0[i] \ FlagsOf(Classify0(current_pa_0(i), image))
                         = BlockAddress(i)
                  /\ l2_page_table_1[i] \ FlagsOf(Classify1(current_pa_1(i)))
                         = BlockAddress(PAGE_TABLE_ENTRIES + i)
           /\ \A branch \in {"device", "kernel", "ram"} :
                  FlagsOf(branch) \cap OutputAddressBits = {}
           /\ walk.table = "l2_page_table_0"
                  => OutputAddress(walk.descriptor) \in {{}, BlockAddress(walk.index)}
           /\ walk.table = "l2_page_table_1"
                  => OutputAddress(walk.descriptor)
                         \in {{}, BlockAddress(PAGE_TABLE_ENTRIES + walk.index)}

C20_Witness ==
    /\ page_tables = "populated"
    /\ image.KERNEL_START = Addr(524288)
    /\ image.KERNEL_END = Addr(2621440)
    /\ Classify0(current_pa_0(0), image) = "kernel"
    /\ Classify0(current_pa_0(2), image) = "ram"
    /\ walk = [table |-> "l2_page_table_1", index |-> 3,
               descriptor |-> {0, 3, 8, 9, 10, 21, 22, 30, 53, 54}]

----------------------------------------------------------------------------
(* kernel_main: the boot sequence, the exception handlers, Kernel::panic *)

\* the values of ESR_EL1.EC, bits 31:26
EcInputs == 0..63

\* ec_desc of c_sync_handler
EcDesc(ec) ==
    CASE ec = 0 -> "Unknown reason"
      [] ec = 7 -> "Trapped SVE, SIMD or floating-point instruction"
      [] ec = 17 -> "Instruction Abort from lower EL"
      [] ec = 18 -> "Instruction Abort from same EL"
      [] ec = 21 -> "PC alignment fault"
      [] ec = 24 -> "Trapped MSR, MRS or System instruction in AArch64"
      [] ec = 32 -> "Data Abort from lower EL (AArch32)"
      [] ec = 33 -> "Data Abort from lower EL (AArch64)"
      [] ec = 34 -> "Data Abort from same EL (AArch32)"
      [] ec = 35 -> "Data Abort from same EL (AArch64)"
      [] ec \in {36, 37} -> "Data Abort, not SP alignment, from same EL"
      [] ec = 22 -> "SVC instruction execution in AArch32 state"
      [] ec = 23 -> "SVC instruction execution in AArch64 state"
      [] OTHER -> "Unknown"

\* the core on entry to a handler: taking an exception sets all four mask bits
ExceptionEntry(c, handler) ==
    [cpu |-> [c EXCEPT !.daif = AllMasked], klog |-> <<handler>>]

\* init_exceptions: VBAR_EL1 = _exception_vectors
init_exceptions(c) == [c EXCEPT !.vbar = "_exception_vectors"]

\* c_sync_handler: ESR_EL1 and FAR_EL1 read, the class decoded and printed, panic
c_sync_handler(c, ec) ==
    panic([c EXCEPT !.klog = @ \o <<"mrs esr_el1", "mrs far_el1",
                                    "kprintf Synchronous Exception", EcDesc(ec)>>],
          "Unhandled Synchronous Exception.")

\* c_fiq_handler that returns to the interrupted code
c_fiq_handler_returns(c) ==
    [c EXCEPT !.klog = @ \o <<"kprintf FIQ received!">>]

\* c_fiq_handler: a line printed, panic
c_fiq_handler(c) ==
    panic([c EXCEPT !.klog = @ \o <<"kprintf FIQ received!">>],
          "Unhandled FIQ Exception.")

\* c_serror_handler: DISR_EL1 read, two lines printed, panic
c_serror_handler(c) ==
    panic([c EXCEPT !.klog = @ \o <<"mrs disr_el1", "kprintf SError received!",
                                    "kprintf DISR_EL1">>],
          "Unhandled SError Exception.")

\* c_default_handler: two lines printed, panic
c_default_handler(c) ==
    panic([c EXCEPT !.klog = @ \o <<"kprintf Default/Unknown exception caught!",
                                    "kprintf SPSR_EL1">>],
          "Unhandled Exception (default handler).")

\* the vector table is installed and the core is executing instructions
CanTrap == cpu.vbar = "_exception_vectors" /\ pc = "idle"

\* a handler has run on the core: where it leaves the core and whether it
\* came back
Handled(c) ==
    /\ cpu' = c.cpu
    /\ klog' = c.klog
    /\ halted' = (halted \/ Halts(c))
    /\ UNCHANGED <<kpc, access, spsr, mvars, fvars, gvars, timer, cntp, tpc, tlog, tlast>>

\* an instruction of the kernel raises a synchronous exception
SyncException ==
    \E ec \in EcInputs :
        /\ CanTrap
        /\ ~halted
        /\ Handled(c_sync_handler(ExceptionEntry(cpu, "c_sync_handler"), ec))

\* an FIQ is signalled while the core does not mask it
FiqException ==
    /\ CanTrap
    /\ "F" \notin cpu.daif
    /\ Handled(c_fiq_handler(ExceptionEntry(cpu, "c_fiq_handler")))

\* an SError is signalled while the core does not mask it
SErrorException ==
    /\ CanTrap
    /\ "A" \notin cpu.daif
    /\ Handled(c_serror_handler(ExceptionEntry(cpu, "c_serror_handler")))

\* an exception arrives through a vector slot wired to the default handler
DefaultException ==
    /\ CanTrap
    /\ ~halted
    /\ Handled(c_default_handler(ExceptionEntry(cpu, "c_default_handler")))

\* kernel_main: init_exceptions()
InitExceptions ==
    /\ kpc = "MMU::init_and_enable"
    /\ ~halted
    /\ cpu' = init_exceptions(cpu)
    /\ klog' = <<"msr vbar_el1">>
    /\ kpc' = "init_exceptions"
    /\ UNCHANGED <<access, spsr, mvars, fvars, gvars, tvars>>

\* gic_init_global called before init_exceptions
KernelGicInit_before_vectors ==
    /\ kpc = "MMU::init_and_enable"
    /\ BootGicInit

\* kernel_main: gic_init_global(), the controller's init()
KernelGicInit ==
    /\ kpc = "init_exceptions"
    /\ BootGicInit

\* system_timer_init_global has been called and has returned
TimerInitReturned == tpc.at = "idle" /\ tlast.op # "GenericTimer"

\* kernel_main: the shell returns, Kernel::panic("Kernel shell exited normally.")
KernelShellExit ==
    /\ kpc = "gic_init_global"
    /\ TimerInitReturned
    /\ ~halted
    /\ pc = "idle"
    /\ Handled(panic([cpu |-> cpu, klog |-> <<"kernel_main">>],
                     "Kernel shell exited normally."))

\* the core enters kernel_main with every exception masked, the MMU as the
\* firmware left it, and the timer and its line as the firmware left them
BootInit ==
    /\ TimerUntouched
    /\ FsUntouched
    /\ MmuUntouched
    /\ \E sctlr \in BootSctlr : cpu = CoreAtBoot(AllMasked, sctlr)
    /\ kpc = "start"
    /\ klog = <<>>
    /\ access = NoAccess
    /\ spsr = <<>>
    /\ \E ctl \in BootCtl, frq \in CntfrqInputs : cntp = CntpAtBoot(ctl, frq)
    /\ handlers = Constructed
    /\ num_irq_lines = 0
    /\ \E en \in TimerBootEnabled :
          gicd = [ctlr |-> W32(0), typer |-> W32(1), enabled |-> en,
                  prio |-> Zeroed(LinesOf(W32(1))),
                  target |-> Zeroed(LinesOf(W32(1))),
                  cfg |-> Zeroed(LinesOf(W32(1)) \div 4)]
    /\ gicc = [ctlr |-> W32(0), pmr |-> W32(0), bpr |-> W32(0)]
    /\ pc = "idle"
    /\ irq_id = 0
    /\ calls = <<>>
    /\ hops = 0
    /\ log = <<>>
    /\ last = Call("GICDriver", 0, NULL, NULL, "void")

BootNext ==
    \/ InitAndEnableEnter
    \/ SetupPageTables
    \/ ConfigureTranslationControl
    \/ EnableMmuAndCaches
    \/ InitExceptions
    \/ KernelGicInit
    \/ EnableCpuInterrupts
    \/ KernelTimerInit
    \/ TimerInitProgram
    \/ TimerInitControl
    \/ TimerInitEnable
    \/ KernelShellExit
    \/ TimerExpire
    \/ TimerIrq
    \/ SyncException
    \/ FiqException
    \/ SErrorException
    \/ DefaultException

BootSpec == BootInit /\ [][BootNext]_vars

----------------------------------------------------------------------------
(* C21..C25: the translation regime MMU::init_and_enable installs *)

\* the core has translated an address under the kernel's tables
Translated == access.kind # "none"

\* C21: after setup_page_tables the top-level table has exactly two valid
\* entries, entry 0 a table descriptor pointing to l2_page_table_0 and
\* entry 1 a table descriptor pointing to l2_page_table_1, entries 2..511
\* are zero, and so no virtual address at or above 2 GiB is mapped: every
\* translation of such an address faults.
C21_NothingMappedAbove2GiB ==
    page_tables = "populated"
        => /\ l1_page_table[0] = AddrBits(image.l2_page_table_0) \cup {0, 1}
           /\ l1_page_table[1] = AddrBits(image.l2_page_table_1) \cup {0, 1}
           /\ \A i \in 2..(PAGE_TABLE_ENTRIES - 1) : l1_page_table[i] = {}
           /\ (Translated /\ access.va >= 2 * PAGE_TABLE_ENTRIES)
                  => access.kind = "fault"

\* a valid block descriptor with the access flag, inner-shareable, read/write
\* for the privileged level only, never executable at the unprivileged level
ProtectedBlock(descriptor) ==
    /\ PTE_VALID \subseteq descriptor
    /\ PTE_TABLE_OR_PAGE \cap descriptor = {}
    /\ PTE_AF \subseteq descriptor
    /\ descriptor \cap {8, 9} = PTE_SH_INNER_SHAREABLE
    /\ descriptor \cap {6, 7} = PTE_AP_EL1_RW_EL0_NONE
    /\ PTE_UXN \subseteq descriptor

\* the privileged level may execute from what the descriptor maps
PrivilegedExecutable(descriptor) == PTE_PXN \cap descriptor = {}

\* C22: every second-level descriptor built by setup_page_tables is a valid
\* block descriptor with the access flag set, inner-shareable, privileged-only
\* read/write and unprivileged-execute-never; privileged-execute-never is
\* clear only for blocks classified as kernel image and set for every device
\* and general-RAM block, so code can execute only inside the detected
\* kernel-image range and only at the privileged level: every address the
\* core can fetch from lies in a block classified as kernel image.
C22_ExecuteOnlyKernelImage ==
    page_tables = "populated"
        => /\ \A i \in 0..(PAGE_TABLE_ENTRIES - 1) :
                  /\ ProtectedBlock(l2_page_table_0[i])
                  /\ ProtectedBlock(l2_page_table_1[i])
                  /\ PrivilegedExecutable(l2_page_table_0[i])
                         <=> Classify0(current_pa_0(i), image) = "kernel"
                  /\ ~PrivilegedExecutable(l2_page_table_1[i])
           /\ (Translated /\ access.kind = "block")
                  => /\ PTE_UXN \subseteq walk.descriptor
                     /\ PrivilegedExecutable(walk.descriptor)
                            => /\ access.va < PAGE_TABLE_ENTRIES
                               /\ Classify0(current_pa_0(access.va), image) = "kernel"

\* where an operation stands in a log
Positions(l, op) == {i \in 1..Len(l) : l[i] = op}

\* what a step adds to the log of the core
NewOps ==
    IF Len(klog') >= Len(klog) /\ SubSeq(klog', 1, Len(klog)) = klog
    THEN SubSeq(klog', Len(klog) + 1, Len(klog'))
    ELSE klog'

\* the operations that write the page tables
TableWrites ==
    {"kmemset l1_page_table", "kmemset l2_page_table_0", "kmemset l2_page_table_1",
     "write l1_page_table", "write l2_page_table_0", "write l2_page_table_1"}

\* a step that writes a page-table descriptor
WritesTables == \E i \in 1..Len(NewOps) : NewOps[i] \in TableWrites

\* init_and_enable found the MMU enabled when it was entered
EnteredEnabled == Positions(klog, "kprintf Warning - MMU already enabled") # {}

\* the step of enable_mmu_and_caches
EnableMmuStep ==
    kpc = "configure_translation_control" /\ ~halted /\ klog' # klog

\* kernel_main is past its call of MMU::init_and_enable
PastMmu == kpc \in {"MMU::init_and_enable", "init_exceptions", "gic_init_global"}

\* C23: after enable_mmu_and_caches writes SCTLR_EL1 it reads it again; if
\* the MMU-enable bit reads 0, Kernel::panic is entered and the function
\* does not return (kernel_main goes no further); and wherever kernel_main
\* is past init_and_enable, the MMU-enable bit is 1.
C23_EnableVerified ==
    /\ [](PastMmu => 0 \in cpu.sctlr)
    /\ [][EnableMmuStep
            => /\ \E r \in Positions(klog', "mrs sctlr_el1") :
                      /\ Positions(klog', "msr sctlr_el1") # {}
                      /\ \A w \in Positions(klog', "msr sctlr_el1") : w < r
               /\ 0 \notin cpu'.sctlr
                      => /\ halted'
                         /\ Halts([klog |-> klog'])
                         /\ kpc' = kpc
               /\ 0 \in cpu'.sctlr
                      => /\ ~halted'
                         /\ kpc' = "MMU::init_and_enable"]_vars

C23_Witness ==
    /\ kpc = "configure_translation_control"
    /\ halted
    /\ 0 \notin cpu.sctlr
    /\ 2 \in cpu.sctlr
    /\ Positions(klog, "msr sctlr_el1") # {}
    /\ Halts([klog |-> klog])

\* C24: in init_and_enable the write that sets the MMU-enable bit comes only
\* after all three tables are populated, after MAIR_EL1, TCR_EL1 and
\* TTBR0_EL1 are programmed, and after the sequence barrier, whole-TLB
\* invalidate, barrier; the MMU, data-cache and instruction-cache enable
\* bits are set by one write of SCTLR_EL1, and the next operation after
\* that write is an instruction synchronization barrier.
C24_EnableLast ==
    [][EnableMmuStep
        => \E e \in Positions(klog', "msr sctlr_el1") :
              /\ Positions(klog', "msr sctlr_el1") = {e}
              /\ page_tables = "populated"
              /\ \A op \in TableWrites \cup {"msr mair_el1", "msr tcr_el1", "msr ttbr0_el1"} :
                     /\ Positions(klog', op) # {}
                     /\ \A i \in Positions(klog', op) : i < e
              /\ cpu.mair = MairValue
              /\ cpu.tcr = TcrValue
              /\ cpu.ttbr0 = AddrBits(image.l1_page_table)
              /\ \E t \in Positions(klog', "tlbi vmalle1is") :
                     /\ t < e
                     /\ \E d \in Positions(klog', "dsb ish") : d < t
                     /\ \E d \in Positions(klog', "dsb ish") : t < d /\ d < e
                     /\ \A i \in Positions(klog', "msr ttbr0_el1") : i < t
              /\ klog'[e + 1] = "isb"
              /\ cpu'.sctlr \ cpu.sctlr \subseteq {0, 2, 12}
              /\ {2, 12} \subseteq cpu'.sctlr
              /\ ~halted' => 0 \in cpu'.sctlr]_vars

C24_Witness ==
    /\ kpc = "MMU::init_and_enable"
    /\ ~EnteredEnabled
    /\ {0, 2, 12} \subseteq cpu.sctlr
    /\ page_tables = "populated"
    /\ Positions(klog, "tlbi vmalle1is") # {}

\* C25 as stated: the page tables are built once before the MMU is enabled
\* and never mutated afterwards; no step writes a page-table descriptor
\* while SCTLR_EL1's MMU-enable bit is 1, also when init_and_enable is
\* entered with the MMU already enabled.
C25_Original == [][WritesTables => 0 \notin cpu.sctlr]_vars

\* C25, amended: the page tables are written by one step only, the call of
\* setup_page_tables in init_and_enable, made once while the tables are
\* still zeroed .bss; in that step the MMU-enable bit is 1 exactly if
\* init_and_enable was entered with the MMU already enabled (it warns and
\* rebuilds all the same), and no descriptor is written after the kernel
\* has enabled the MMU.
C25_TablesBuiltOnce ==
    [][/\ WritesTables
           => /\ kpc = "init_and_enable"
              /\ page_tables = "bss"
              /\ 0 \in cpu.sctlr <=> EnteredEnabled
       /\ page_tables' # page_tables => WritesTables
       /\ PastMmu => page_tables' = page_tables]_vars

C25_Witness ==
    /\ kpc = "setup_page_tables"
    /\ page_tables = "populated"
    /\ 0 \notin cpu.sctlr
    /\ Positions(klog, "write l2_page_table_1") # {}

----------------------------------------------------------------------------
(* C26..C30: Kernel::panic, the exception handlers, the order of the boot *)

\* what Kernel::panic writes to the console
PanicOutput ==
    {"println *** KERNEL PANIC ***", "print Message: ", "println message",
     "println No message provided.", "println System halted."}

\* the step in which Kernel::panic is entered
PanicStep == ~halted /\ halted'

\* C26: Kernel::panic masks all CPU interrupts before it produces any
\* console output, and never returns: once it has been entered the core
\* stays in its wfi loop with D, A, I and F masked, and no interrupt handler
\* and no other kernel code runs afterwards; only the timer's counter goes
\* on counting.
C26_PanicIsFinal ==
    /\ [](halted => cpu.daif = AllMasked /\ Halts([klog |-> klog]))
    /\ [][PanicStep
            => \E m \in Positions(klog', "msr daifset, #0xf") :
                   \A i \in 1..Len(klog') : klog'[i] \in PanicOutput => m < i]_vars
    /\ [][halted
            => /\ halted'
               /\ UNCHANGED <<gvars, mvars, fvars, kvars, timer, tpc, tlog, tlast>>]_vars

\* panic entered from kernel_main with interrupts unmasked, and the timer's
\* interrupt pending at the controller afterwards, never taken
C26_Witness ==
    /\ halted
    /\ kpc = "gic_init_global"
    /\ klog[1] = "kernel_main"
    /\ cpu.daif = AllMasked
    /\ TimerOutput
    /\ timer.irq_number \in gicd.enabled
    /\ gicd.ctlr = W32(1)
    /\ gicc.ctlr = W32(1)

\* the handlers that end in Kernel::panic
FatalHandlers == {"c_sync_handler", "c_fiq_handler", "c_serror_handler", "c_default_handler"}

\* the step in which the vector stub calls a handler
EntersHandler(h) == klog' # klog /\ Len(klog') > 0 /\ klog'[1] = h

\* the step in which the IRQ vector is taken and c_irq_handler runs
IrqExceptionStep ==
    /\ IrqRaised
    /\ Len(klog') > 0
    /\ klog'[1] = "c_irq_handler"
    /\ tlast'.op = "handle_interrupt"
    /\ last'.op = "dispatch_interrupt"

\* C27: each of c_sync_handler, c_fiq_handler, c_serror_handler and
\* c_default_handler ends in Kernel::panic and never returns to the
\* interrupted code, c_sync_handler for every value of ESR_EL1.EC; the IRQ
\* handler is the only one that returns.
C27_OnlyIrqReturns ==
    /\ [](\A ec \in EcInputs :
             Halts(c_sync_handler(ExceptionEntry(cpu, "c_sync_handler"), ec)))
    /\ [][/\ \A h \in FatalHandlers :
                EntersHandler(h)
                    => /\ halted'
                       /\ Halts([klog |-> klog'])
                       /\ cpu'.daif = AllMasked
                       /\ kpc' = kpc
          /\ IrqExceptionStep
                => /\ ~halted'
                   /\ ~Halts([klog |-> klog'])
                   /\ cpu' = cpu]_vars

C27_Witness ==
    /\ halted
    /\ klog[1] = "c_sync_handler"
    /\ Positions(klog, EcDesc(37)) # {}
    /\ Halts([klog |-> klog])

\* the reads of GICC_IAR in a log of register accesses
Acknowledges(l) == SelectSeq(l, LAMBDA e : e.blk = "GICC" /\ e.rw = "r" /\ e.off = GICC_IAR)

\* C28: on each IRQ exception c_irq_handler calls the controller's
\* dispatch_interrupt exactly once (one acknowledge) and returns; with no
\* controller (a null accessor) it makes no register access at all, no
\* acknowledge and no end-of-interrupt, and returns normally.
C28_DispatchOnce ==
    [][IrqExceptionStep
        => /\ Cardinality(Positions(klog', "dispatch_interrupt")) = 1
           /\ Len(Acknowledges(log')) = 1
           /\ ~halted'
           /\ LET none == c_irq_handler(World, NULL) IN
                  /\ none.world = World
                  /\ none.world.m.log = <<>>
                  /\ Positions(none.klog, "dispatch_interrupt") = {}
                  /\ ~Halts(none)]_vars

C28_Witness ==
    /\ ~halted
    /\ klog = <<"c_irq_handler", "dispatch_interrupt">>
    /\ tlast = TimerCall("handle_interrupt", 0, NULL, NULL, "returned")
    /\ Len(Acknowledges(log)) = 1

\* the controller's init() has completed
ControllerInitialized ==
    Booted /\ gicd.ctlr = W32(1) /\ gicc.ctlr = W32(1)

\* C29: in the boot sequence CPU interrupts are unmasked only after the MMU
\* has been enabled, the vector base installed and the controller's init()
\* completed, in that order: the vector base is installed with the MMU on,
\* init() runs with the vector base installed, the unmask follows init();
\* and in no state are IRQs unmasked while the vector base is not installed
\* or the controller is not initialized.
C29_UnmaskLast ==
    /\ []("I" \notin cpu.daif
            => /\ 0 \in cpu.sctlr
               /\ cpu.vbar = "_exception_vectors"
               /\ ControllerInitialized)
    /\ [][/\ cpu'.vbar # cpu.vbar => 0 \in cpu.sctlr /\ ~Booted
          /\ num_irq_lines' # num_irq_lines
                => /\ cpu.vbar = "_exception_vectors"
                   /\ 0 \in cpu.sctlr
                   /\ "I" \in cpu.daif
          /\ ("I" \in cpu.daif /\ "I" \notin cpu'.daif)
                => /\ last.op = "init"
                   /\ ControllerInitialized
                   /\ cpu.vbar = "_exception_vectors"]_vars

C29_Witness ==
    /\ "I" \notin cpu.daif
    /\ kpc = "gic_init_global"
    /\ klog = <<"enable_cpu_interrupts">>
    /\ cpu.vbar = "_exception_vectors"
    /\ ControllerInitialized

\* C30: the timer's handler is registered on its line after the
\* controller's init and before CPU interrupts are unmasked, so IRQs are
\* never unmasked while the timer line has no registered handler.
C30_RegisteredBeforeUnmask ==
    "I" \notin cpu.daif
        => Slot(handlers, timer.irq_number).handler = "generic_timer_irq_trampoline"

----------------------------------------------------------------------------
(* GICDriver::init on a controller the firmware has used, and the registry *)
(* under any sequence of calls                                             *)

\* the controller the kernel starts on: the value of GICD_TYPER (64 lines;
\* 256 lines, as many as the handler table has slots; 288 lines) and
\* whether its registers hold their reset values or what firmware programmed
DriverBootInputs == {<<1, "reset">>, <<7, "firmware">>, <<40, "firmware">>}

\* the lines firmware left enabled
FirmwareEnabled == {16, 30, 34, 255, 256, 287}

\* the distributor the driver finds: firmware ran it with priority 0x80,
\* every line targeted at all four cores and edge-triggered
GicdAtBoot(t, boot) ==
    LET n == LinesOf(W32(t)) IN
    [ctlr    |-> IF boot = "reset" THEN W32(0) ELSE W32(1),
     typer   |-> W32(t),
     enabled |-> IF boot = "reset" THEN {} ELSE FirmwareEnabled \cap (0..(n - 1)),
     prio    |-> [a \in 1..n |-> IF boot = "reset" THEN 0 ELSE 128],
     target  |-> [a \in 1..n |-> IF boot = "reset" THEN 0 ELSE 15],
     cfg     |-> [a \in 1..(n \div 4) |-> IF boot = "reset" THEN 0 ELSE 170]]

DriverInit ==
    /\ TimerUntouched
    /\ FsUntouched
    /\ MmuUntouched
    /\ CoreUntouched
    /\ cntp = CntpAtBoot(0, 1000000)
    /\ handlers = Constructed
    /\ num_irq_lines = 0
    /\ \E b \in DriverBootInputs :
          /\ gicd = GicdAtBoot(b[1], b[2])
          /\ gicc = IF b[2] = "reset" THEN [ctlr |-> W32(0), pmr |-> W32(0), bpr |-> W32(0)]
                    ELSE [ctlr |-> W32(1), pmr |-> W32(240), bpr |-> W32(2)]
    /\ pc = "idle"
    /\ irq_id = 0
    /\ calls = <<>>
    /\ hops = 0
    /\ log = <<>>
    /\ last = Call("GICDriver", 0, NULL, NULL, "void")

\* init that also empties the handler table, as the constructor does
DriverGicInit_clears_registry ==
    /\ pc = "idle"
    /\ num_irq_lines' = LinesOf(gicd_read(gicd, GICD_TYPER))
    /\ Called(init(Machine), Call("init", 0, NULL, NULL, "void"))
    /\ handlers' = Constructed

\* GICDriver::init, called whenever kernel code is not inside a handler
DriverGicInit ==
    /\ pc = "idle"
    /\ num_irq_lines' = LinesOf(gicd_read(gicd, GICD_TYPER))
    /\ Called(init(Machine), Call("init", 0, NULL, NULL, "void"))
    /\ UNCHANGED handlers

DriverNext ==
    \/ DriverGicInit
    \/ RegisterHandler
    \/ UnregisterHandler
    \/ DispatchInterrupt
    \/ HandlerReturn

DriverSpec == DriverInit /\ [][DriverNext]_vars

\* what the distributor holds for line i: IPRIORITYR byte i, ICFGR bits
\* 2i+1:2i (bit 2i+1 set is edge-triggered), ITARGETSR byte i, the enable bit
LineConfig(g, i) ==
    [priority |-> ByteAt(g.prio, i),
     edge     |-> (ByteAt(g.cfg, i \div 4) \div (2 ^ (2 * (i % 4) + 1))) % 2 = 1,
     target   |-> ByteAt(g.target, i),
     enabled  |-> i \in g.enabled]

\* init's defaults: priority 0xA0, level-sensitive, CPU 0, disabled
DefaultConfig == [priority |-> 160, edge |-> FALSE, target |-> 1, enabled |-> FALSE]

\* init has just returned
InitReturned == last.op = "init" /\ pc = "idle"

----------------------------------------------------------------------------
(* C31..C33, C37, C39: the controller after init, and the registry *)

\* C31: after init, every implemented line i with 32 <= i < the line count
\* read from the type register has priority 0xA0, a level-sensitive
\* trigger, target CPU 0, and is disabled.
C31_AllSharedLinesDefault ==
    InitReturned
        => \A i \in 32..(LinesOf(gicd.typer) - 1) : LineConfig(gicd, i) = DefaultConfig

\* the bound of init's loop: min(implemented-line count, MAX_IRQS)
ConfiguredBound(g) == IF LinesOf(g.typer) < MAX_IRQS THEN LinesOf(g.typer) ELSE MAX_IRQS

\* C37: init changes the enable, priority, trigger and target configuration
\* only of lines i with 32 <= i < min(implemented-line count, MAX_IRQS); the
\* private lines 0..31 and every line at or beyond that bound, the
\* priority fields next to the last configured line included, are left as
\* they were.
C37_InitFrame ==
    [][last'.op = "init"
          => \A i \in 0..(LinesOf(gicd.typer) - 1) :
                 (i < 32 \/ i >= ConfiguredBound(gicd))
                     => LineConfig(gicd', i) = LineConfig(gicd, i)]_vars

\* C32: during init the distributor is disabled before the line count is
\* read and before any per-line configuration write, and is re-enabled, for
\* one group, only after all of them; the CPU interface is then programmed
\* in the order priority mask = 0xFF, binary point = 3, interface
\* enable = 1, so signalling to the core is enabled last.
C32_InitOrder ==
    InitReturned
        => LET n == Len(log) IN
           /\ n >= 6
           /\ log[1] = Access("init", "GICD", "w", GICD_CTLR, W32(0))
           /\ log[2] = Access("init", "GICD", "r", GICD_TYPER, gicd.typer)
           /\ \A k \in 3..(n - 4) :
                  /\ log[k].blk = "GICD"
                  /\ log[k].off \notin {GICD_CTLR, GICD_TYPER}
           /\ log[n - 3] = Access("init", "GICD", "w", GICD_CTLR, W32(1))
           /\ log[n - 2] = Access("init", "GICC", "w", GICC_PMR, W32(255))
           /\ log[n - 1] = Access("init", "GICC", "w", GICC_BPR, W32(3))
           /\ log[n] = Access("init", "GICC", "w", GICC_CTLR, W32(1))

\* init has run on the 256-line controller firmware had left switched on:
\* every shared line was configured between the two writes of GICD_CTLR
C32_Witness ==
    /\ InitReturned
    /\ LinesOf(gicd.typer) = 256
    /\ \E k \in 3..(Len(log) - 4) :
           log[k] = Access("init", "GICD", "w", GICD_ICENABLER0 + 28, Shl1(31))
    /\ gicd.ctlr = W32(1)
    /\ gicc = [ctlr |-> W32(1), pmr |-> W32(255), bpr |-> W32(3)]

\* C33: calling init twice in succession leaves the distributor, the CPU
\* interface, the cached line count and the handler registry as one call
\* leaves them; init never adds, removes or alters a registration.
C33_InitIdempotent ==
    [][last'.op = "init"
          => /\ handlers' = handlers
             /\ last.op = "init"
                    => /\ gicd' = gicd
                       /\ gicc' = gicc
                       /\ num_irq_lines' = num_irq_lines]_vars

\* init has run again on the 288-line controller while two handlers were
\* registered
C33_Witness ==
    /\ InitReturned
    /\ num_irq_lines = 288
    /\ Slot(handlers, 30).is_registered
    /\ Slot(handlers, 255).is_registered

\* C39: in every state reachable through register_handler,
\* unregister_handler, init and dispatch_interrupt, every slot of the
\* handler table whose registered flag is false has a null handler and a
\* null context, and only register_handler and unregister_handler ever
\* change a slot.
C39_EmptySlotsAreNull ==
    /\ [](\A i \in 0..(MAX_IRQS - 1) :
              ~Slot(handlers, i).is_registered
                  => Slot(handlers, i).handler = NULL /\ Slot(handlers, i).context = NULL)
    /\ [][handlers' # handlers
              => last'.op \in {"register_handler", "unregister_handler"}]_vars

\* a handler that was registered with a context has been unregistered, by
\* the handler running on another line, after init and a dispatch
C39_Witness ==
    /\ last = Call("unregister_handler", 30, NULL, NULL, "true")
    /\ pc = "handler"
    /\ irq_id = 255
    /\ Slot(handlers, 30) = EmptySlot
    /\ Slot(handlers, 255).is_registered

----------------------------------------------------------------------------
(* IRQ exceptions by the mask bits: entry, the dispatch, the return *)

\* how many IRQ exceptions may be in progress at once
MaxNesting == 2

\* the controller signals an interrupt and the core does not mask it
IrqSignalled ==
    /\ "I" \notin cpu.daif
    /\ gicd.ctlr = W32(1)
    /\ gicc.ctlr = W32(1)

\* dispatch_interrupt up to the handler call, with a handler that is entered
\* with IRQs unmasked again
DispatchMask_unmasked(c, path) ==
    IF path = "call" THEN [c EXCEPT !.daif = @ \ {"I"}] ELSE c

\* the mask bits while dispatch_interrupt runs and calls the handler: as
\* exception entry left them
DispatchMask(c, path) == c

\* the core takes an IRQ: the vector stub saves the interrupted mask bits,
\* c_irq_handler calls dispatch_interrupt, which returns at once (and the
\* stub with it) or calls the registered handler
IrqTaken ==
    \E iar_val \in IarInputs :
        LET id    == IrqIdOf(W32(iar_val))
            path  == DispatchPath(handlers, num_irq_lines, id)
            entry == ExceptionEntry(cpu, "c_irq_handler")
            h     == IF get_interrupt_controller # NULL
                     THEN entry.klog \o <<"dispatch_interrupt">>
                     ELSE entry.klog
            m0    == GiccR(Machine, "dispatch_interrupt", GICC_IAR, W32(iar_val))
            m     == IF path = "call" THEN m0
                     ELSE IF path = "unhandled" THEN DispatchTail(m0, handlers, id)
                     ELSE DispatchDrop(m0, path, id)
        IN
        /\ Booted
        /\ ~halted
        /\ IrqSignalled
        /\ Len(spsr) < MaxNesting
        /\ klog' = h
        /\ gicd' = m.gicd
        /\ gicc' = m.gicc
        /\ log' = m.log
        /\ hops' = 0
        /\ IF path = "call"
           THEN /\ cpu' = DispatchMask(entry.cpu, path)
                /\ spsr' = Append(spsr, cpu.daif)
                /\ pc' = "handler"
                /\ irq_id' = id
                /\ calls' = (IF pc = "handler" THEN calls ELSE <<>>) \o Invocation(handlers, id)
                /\ last' = Call("dispatch_interrupt", id, NULL, NULL, "in_handler")
           ELSE /\ cpu' = cpu
                /\ spsr' = spsr
                /\ pc' = pc
                /\ irq_id' = IF pc = "handler" THEN irq_id ELSE id
                /\ calls' = IF pc = "handler" THEN calls ELSE <<>>
                /\ last' = Call("dispatch_interrupt", id, NULL, NULL, "void")
        /\ UNCHANGED <<handlers, num_irq_lines, kpc, access, tvars, mvars, fvars>>

\* the handler returns, dispatch_interrupt and c_irq_handler run to their
\* ends, and the stub's eret restores the mask bits it saved
IrqReturn ==
    LET m == DispatchTail([gicd |-> gicd, gicc |-> gicc, log |-> log], handlers, irq_id)
        n == Len(spsr)
    IN
    /\ pc = "handler"
    /\ n > 0
    /\ gicd' = m.gicd
    /\ gicc' = m.gicc
    /\ log' = m.log
    /\ cpu' = [cpu EXCEPT !.daif = spsr[n]]
    /\ spsr' = SubSeq(spsr, 1, n - 1)
    /\ pc' = IF n > 1 THEN "handler" ELSE "idle"
    /\ calls' = IF n > 1 THEN SubSeq(calls, 1, Len(calls) - 1) ELSE calls
    /\ irq_id' = IF n > 1 THEN calls[Len(calls) - 1].irq_num ELSE irq_id
    /\ last' = Call("dispatch_interrupt", irq_id, NULL, NULL, "void")
    /\ UNCHANGED <<handlers, num_irq_lines, hops, kpc, klog, access, tvars, mvars, fvars>>

\* kernel_main has installed the vectors; the controller is as the firmware
\* left it
NestInit ==
    /\ TimerUntouched
    /\ FsUntouched
    /\ MmuUntouched
    /\ cpu = init_exceptions(CoreAtBoot(AllMasked, {0, 2, 12}))
    /\ kpc = "init_exceptions"
    /\ klog = <<"msr vbar_el1">>
    /\ access = NoAccess
    /\ spsr = <<>>
    /\ cntp = CntpAtBoot(0, 1000000)
    /\ handlers = Constructed
    /\ num_irq_lines = 0
    /\ \E boot \in {"reset", "firmware"} :
          /\ gicd = GicdAtBoot(1, boot)
          /\ gicc = [ctlr |-> W32(0), pmr |-> W32(0), bpr |-> W32(0)]
    /\ pc = "idle"
    /\ irq_id = 0
    /\ calls = <<>>
    /\ hops = 0
    /\ log = <<>>
    /\ last = Call("GICDriver", 0, NULL, NULL, "void")

NestNext ==
    \/ KernelGicInit
    \/ EnableCpuInterrupts
    \/ RegisterHandler
    \/ UnregisterHandler
    \/ EndOfInterrupt
    \/ IrqTaken
    \/ IrqReturn

NestSpec == NestInit /\ [][NestNext]_vars

\* C34: no handler invocation starts while another handler invoked by
\* dispatch_interrupt is still running: from exception entry to the return
\* from c_irq_handler the dispatch path never unmasks CPU interrupts, so at
\* most one registered handler is active at any time.
C34_NoNestedHandlers ==
    /\ [](pc = "handler" => "I" \in cpu.daif /\ Len(spsr) = 1 /\ Len(calls) = 1)
    /\ [](pc = "idle" => spsr = <<>>)
    /\ [][Len(spsr') > Len(spsr) => pc = "idle" /\ spsr = <<>>]_vars

\* a registered handler is running, entered from code that ran unmasked,
\* and has called into the controller
C34_Witness ==
    /\ pc = "handler"
    /\ spsr = <<{}>>
    /\ cpu.daif = AllMasked
    /\ calls = Invocation(handlers, 30)
    /\ last.op = "end_of_interrupt"
    /\ hops = 1

----------------------------------------------------------------------------
(* C35, C36: the kernel image and the device registers under the tables *)

\* the 2 MiB block at current_pa holds at least one byte of the kernel image
HoldsImage(current_pa, img) ==
    /\ AddrLess(img.KERNEL_START, img.KERNEL_END)
    /\ AddrLess(img.KERNEL_START, AddrPlus(current_pa, PAGE_SIZE_2MB))
    /\ AddrLess(current_pa, img.KERNEL_END)

\* C35: for every placement and size of the kernel image inside the first
\* gigabyte, every 2 MiB block that holds at least one byte of the image is
\* classified as kernel image by setup_page_tables (Normal cacheable,
\* privileged execution permitted), so every kernel instruction address is
\* privileged-executable after the MMU is enabled.
C35_ImageBlocksExecutable ==
    page_tables = "populated"
        => \A i \in 0..(PAGE_TABLE_ENTRIES - 1) :
               HoldsImage(current_pa_0(i), image)
                   => /\ Classify0(current_pa_0(i), image) = "kernel"
                      /\ l2_page_table_0[i] \cap {2, 3, 4} = PTE_ATTR_INDX(MAIR_IDX_NORMAL_C)
                      /\ PrivilegedExecutable(l2_page_table_0[i])

\* the register blocks the kernel's drivers access, as <<2 MiB block, offset>>
GICD_BASE == <<2044, 266240>>
GICC_BASE == <<2044, 270336>>
UART0_BASE == <<2033, 4096>>
GPIO_BASE == <<2033, 0>>

\* the blocks they lie in
PeripheralBlocks == {GICD_BASE[1], GICC_BASE[1], UART0_BASE[1], GPIO_BASE[1]}

\* C36: every register block the kernel accesses after the MMU is enabled
\* (GIC distributor 0xFF841000, GIC CPU interface 0xFF842000, UART0
\* 0xFE201000, GPIO 0xFE200000) lies in a 2 MiB block that the page tables
\* map with a valid descriptor tagged Device-nGnRnE, so these accesses
\* translate without a fault.
C36_PeripheralsMappedDevice ==
    /\ page_tables = "populated"
           => \A b \in PeripheralBlocks :
                  \E i \in 0..(PAGE_TABLE_ENTRIES - 1) :
                      \/ /\ current_pa_0(i) = <<b, 0>>
                         /\ Classify0(current_pa_0(i), image) = "device"
                      \/ /\ current_pa_1(i) = <<b, 0>>
                         /\ Classify1(current_pa_1(i)) = "device"
    /\ (Translated /\ access.va \in PeripheralBlocks)
           => /\ access.kind = "block"
              /\ access.pa = access.va
              /\ walk.descriptor \cap {2, 3, 4} = PTE_ATTR_INDX(MAIR_IDX_DEVICE_NGNRNE)
              /\ FieldOf(cpu.mair, 8 * MAIR_IDX_DEVICE_NGNRNE, 8 * MAIR_IDX_DEVICE_NGNRNE + 7)
                     = MAIR_ATTR_DEVICE_NGNRNE

----------------------------------------------------------------------------
(* C38: the order of GenericTimer::init *)

\* the trampoline is registered on the timer's line
TimerRegistered ==
    Slot(handlers, timer.irq_number)
        = [handler |-> "generic_timer_irq_trampoline",
           context |-> "global_el1_timer_instance", is_registered |-> TRUE]

\* C38: during GenericTimer::init the timer's handler is registered with the
\* controller before the countdown is programmed, before the timer is
\* enabled and before the timer's line is enabled at the controller, so in
\* no state of init is the timer line enabled at the controller while it
\* has no registered handler.
C38_RegisteredFirst ==
    /\ [](tpc.at # "idle" => TimerRegistered)
    /\ [][tpc'.at # tpc.at
              => IF tpc.at = "idle"
                 THEN /\ tpc'.at = "registered"
                      /\ TimerRegistered'
                      /\ cntp' = cntp
                      /\ gicd' = gicd
                 ELSE /\ TimerRegistered
                      /\ handlers' = handlers
                      /\ tpc.at = "registered"
                             => /\ tpc'.at = "programmed"
                                /\ cntp'.ctl = cntp.ctl
                                /\ gicd' = gicd
                      /\ tpc.at = "programmed"
                             => /\ tpc'.at = "controlled"
                                /\ cntp'.tval = cntp.tval
                                /\ gicd' = gicd
                      /\ tpc.at = "controlled"
                             => /\ tpc'.at = "idle"
                                /\ cntp' = cntp]_vars

\* init has registered the handler, programmed the countdown and enabled
\* the timer; the line is still disabled at the controller
C38_Witness ==
    /\ tpc.at = "controlled"
    /\ TimerRegistered
    /\ Booted
    /\ cntp.ctl = 1
    /\ cntp.tval > 0
    /\ timer.irq_number \notin gicd.enabled

-----------------------------------------------------------------------------
(* The in-memory filesystem: Filesystem and FS::File *)

\* the File objects the heap holds at once
MaxOpenFiles == 2

\* OpenMode: READ = 1, WRITE = 2, READ_WRITE = READ | WRITE
READ == 1

WRITE == 2

READ_WRITE == 3

has_read_access(mode) == mode % 2 = 1

has_write_access(mode) == (mode \div 2) % 2 = 1

\* the Filesystem object as one value
Fs == [initialized |-> initialized, file_table |-> file_table,
       block_bitmap |-> block_bitmap, ram_disk_data |-> ram_disk_data]

\* Filesystem::init
fs_init(fs) ==
    IF fs.initialized THEN fs
    ELSE [initialized |-> TRUE,
          file_table |-> [i \in 0..(MAX_FILES - 1) |-> FileMetadata],
          block_bitmap |-> {},
          ram_disk_data |-> << >>]

\* Filesystem::find_metadata: the first slot in use under that name, -1 for nullptr
find_metadata(fs, filename) ==
    IF filename = NULL \/ filename = "" THEN -1
    ELSE LET found == {i \in 0..(MAX_FILES - 1) :
                          fs.file_table[i].in_use /\ fs.file_table[i].name = filename}
         IN  IF found = {} THEN -1
             ELSE CHOOSE i \in found : \A j \in found : i <= j

\* Filesystem::find_free_metadata_slot
find_free_metadata_slot(fs) ==
    LET free == {i \in 0..(MAX_FILES - 1) : ~fs.file_table[i].in_use}
    IN  IF free = {} THEN -1
        ELSE CHOOSE i \in free : \A j \in free : i <= j

\* Filesystem::free_contiguous_blocks
free_contiguous_blocks(fs, start_block_index, num_blocks) ==
    [fs EXCEPT !.block_bitmap =
        @ \ {b \in start_block_index..(start_block_index + num_blocks - 1) : b < MAX_BLOCKS}]

\* Filesystem::create_file
create_file(fs, filename, type) ==
    LET f0 == fs_init(fs)
        slot_idx == find_free_metadata_slot(f0)
    IN  IF filename = NULL \/ filename = "" \/ Len(filename) >= MAX_FILENAME_LENGTH
        THEN [fs |-> f0, res |-> "INVALID_NAME"]
        ELSE IF find_metadata(f0, filename) # -1
        THEN [fs |-> f0, res |-> "ALREADY_EXISTS"]
        ELSE IF slot_idx = -1
        THEN [fs |-> f0, res |-> "FILESYSTEM_FULL"]
        ELSE [fs |-> [f0 EXCEPT !.file_table[slot_idx] =
                         [name |-> filename, type |-> type, in_use |-> TRUE,
                          start_block |-> 0, num_blocks |-> 0, size_bytes |-> 0]],
              res |-> "OK"]

\* File::File: the object open_file constructs on a slot
File(fs, meta, open_mode) ==
    [meta |-> meta, current_mode |-> open_mode, current_seek_pos |-> 0,
     is_valid |-> meta # -1 /\ fs.file_table[meta].in_use]

\* Filesystem::open_file; "file" is the object it hands out, NULL when it fails
open_file(fs, filename, mode) ==
    LET f0 == fs_init(fs)
        created == create_file(f0, filename, "FILE")
        absent == find_metadata(f0, filename) = -1
        f1 == IF absent /\ has_write_access(mode) THEN created.fs ELSE f0
        meta == find_metadata(f1, filename)
        m == f1.file_table[meta]
        f2 == IF has_write_access(mode) /\ m.size_bytes > 0
              THEN [(IF m.num_blocks > 0
                     THEN free_contiguous_blocks(f1, m.start_block, m.num_blocks)
                     ELSE f1)
                    EXCEPT !.file_table[meta].size_bytes = 0,
                           !.file_table[meta].num_blocks = 0,
                           !.file_table[meta].start_block = 0]
              ELSE f1
    IN  IF filename = NULL
        THEN [fs |-> f0, res |-> "INVALID_NAME", file |-> NULL]
        ELSE IF absent /\ ~has_write_access(mode)
        THEN [fs |-> f0, res |-> "NOT_FOUND", file |-> NULL]
        ELSE IF absent /\ created.res # "OK"
        THEN [fs |-> created.fs, res |-> created.res, file |-> NULL]
        ELSE IF meta = -1
        THEN [fs |-> f1, res |-> "UNKNOWN", file |-> NULL]
        ELSE [fs |-> f2, res |-> "OK", file |-> File(f2, meta, mode)]

\* Filesystem::delete_file
delete_file(fs, filename) ==
    LET meta == find_metadata(fs, filename)
        m == fs.file_table[meta]
        f1 == IF m.num_blocks > 0
              THEN free_contiguous_blocks(fs, m.start_block, m.num_blocks)
              ELSE fs
    IN  IF ~fs.initialized THEN [fs |-> fs, res |-> "INVALID_OPERATION"]
        ELSE IF meta = -1 THEN [fs |-> fs, res |-> "NOT_FOUND"]
        ELSE [fs |-> [f1 EXCEPT !.file_table[meta].in_use = FALSE,
                                !.file_table[meta].name = ""],
              res |-> "OK"]

\* the smaller of two sizes (kstd::min)
kmin(a, b) == IF a < b THEN a ELSE b

\* one byte of the RAM disk: zero unless written since init
DiskByte(fs, addr) ==
    IF addr \in DOMAIN fs.ram_disk_data THEN fs.ram_disk_data[addr] ELSE 0

\* byte i of a caller's buffer, which the model names by the pattern that fills it
\* (-1 names the null pointer)
BufferByte(buffer, i) == (buffer + i) % 256

\* Filesystem::read_from_block
read_from_block(fs, block_index, offset_in_block, count) ==
    LET to_read == kmin(count, BLOCK_SIZE_BYTES - offset_in_block)
        src_addr == block_index * BLOCK_SIZE_BYTES + offset_in_block
    IN  IF block_index >= MAX_BLOCKS \/ offset_in_block >= BLOCK_SIZE_BYTES
        THEN [res |-> "IO_ERROR", bytes_read |-> 0, data |-> << >>]
        ELSE [res |-> "OK", bytes_read |-> to_read,
              data |-> [k \in 1..to_read |-> DiskByte(fs, src_addr + k - 1)]]

\* Filesystem::write_to_block; the source is the caller's buffer from byte "from" on
write_to_block(fs, block_index, offset_in_block, buffer, from, count) ==
    LET to_write == kmin(count, BLOCK_SIZE_BYTES - offset_in_block)
        dest_addr == block_index * BLOCK_SIZE_BYTES + offset_in_block
        written == dest_addr..(dest_addr + to_write - 1)
    IN  IF block_index >= MAX_BLOCKS \/ offset_in_block >= BLOCK_SIZE_BYTES
        THEN [res |-> "IO_ERROR", bytes_written |-> 0, fs |-> fs]
        ELSE [res |-> "OK", bytes_written |-> to_write,
              fs |-> [fs EXCEPT !.ram_disk_data =
                         [a \in (DOMAIN @) \cup written |->
                             IF a \in written THEN BufferByte(buffer, from + (a - dest_addr))
                             ELSE @[a]]]]


\* the while loop of File::read: "error" is set where the loop returns instead of breaking
RECURSIVE ReadLoop(_, _, _, _, _, _, _)
ReadLoop(fs, m, to_read, total_bytes_transferred, offset_within_first_block, current_block_idx_in_file, data) ==
    LET done == [error |-> "none", total |-> total_bytes_transferred, data |-> data]
        bytes_to_read_this_block ==
            kmin(BLOCK_SIZE_BYTES - offset_within_first_block,
                 to_read - total_bytes_transferred)
        r == read_from_block(fs, m.start_block + current_block_idx_in_file,
                             offset_within_first_block, bytes_to_read_this_block)
    IN  IF total_bytes_transferred >= to_read THEN done
        ELSE IF current_block_idx_in_file >= m.num_blocks THEN done
        ELSE IF r.res # "OK" \/ r.bytes_read = 0
        THEN IF total_bytes_transferred > 0 THEN done
             ELSE [error |-> IF r.res # "OK" THEN r.res ELSE "IO_ERROR",
                   total |-> 0, data |-> << >>]
        ELSE ReadLoop(fs, m, to_read, total_bytes_transferred + r.bytes_read, 0,
                      current_block_idx_in_file + 1, data \o r.data)

\* File::read into a buffer of the caller (-1 for a null pointer)
File_read(fs, f, buffer, count) ==
    LET m == fs.file_table[f.meta]
        stay(res) == [res |-> res, bytes_read |-> 0, data |-> << >>, file |-> f]
        to_read == kmin(count, m.size_bytes - f.current_seek_pos)
        l == ReadLoop(fs, m, to_read, 0, f.current_seek_pos % BLOCK_SIZE_BYTES,
                      f.current_seek_pos \div BLOCK_SIZE_BYTES, << >>)
    IN  IF ~f.is_valid \/ f.meta = -1 THEN stay("INVALID_OPERATION")
        ELSE IF ~has_read_access(f.current_mode) THEN stay("INVALID_OPERATION")
        ELSE IF buffer = -1 /\ count > 0 THEN stay("IO_ERROR")
        ELSE IF f.current_seek_pos >= m.size_bytes \/ count = 0 THEN stay("OK")
        ELSE IF to_read = 0 THEN stay("OK")
        ELSE IF l.error # "none" THEN stay(l.error)
        ELSE [res |-> "OK", bytes_read |-> l.total, data |-> l.data,
              file |-> [f EXCEPT !.current_seek_pos = @ + l.total]]

\* the while loop of File::write
RECURSIVE WriteLoop(_, _, _, _, _, _, _)
WriteLoop(fs, m, buffer, count, total_bytes_transferred, offset_within_first_block, current_block_idx_in_file) ==
    LET done == [error |-> "none", total |-> total_bytes_transferred, fs |-> fs]
        bytes_to_write_this_block ==
            kmin(BLOCK_SIZE_BYTES - offset_within_first_block,
                 count - total_bytes_transferred)
        w == write_to_block(fs, m.start_block + current_block_idx_in_file,
                            offset_within_first_block, buffer, total_bytes_transferred,
                            bytes_to_write_this_block)
    IN  IF total_bytes_transferred >= count THEN done
        ELSE IF current_block_idx_in_file >= m.num_blocks THEN done
        ELSE IF w.res # "OK" \/ w.bytes_written = 0
        THEN IF total_bytes_transferred > 0 THEN done
             ELSE [error |-> IF w.res # "OK" THEN w.res ELSE "IO_ERROR",
                   total |-> 0, fs |-> fs]
        ELSE WriteLoop(w.fs, m, buffer, count, total_bytes_transferred + w.bytes_written,
                       0, current_block_idx_in_file + 1)

\* File::write from a buffer of the caller (-1 for a null pointer)
File_write(fs, f, buffer, count_in) ==
    LET m == fs.file_table[f.meta]
        stay(res) == [res |-> res, bytes_written |-> 0, fs |-> fs, file |-> f]
        available_space == MAX_FILE_SIZE_BYTES - f.current_seek_pos
        count == IF f.current_seek_pos + count_in > MAX_FILE_SIZE_BYTES
                 THEN kmin(count_in, available_space)
                 ELSE count_in
        new_required_size == f.current_seek_pos + count
        required_blocks ==
            (new_required_size + BLOCK_SIZE_BYTES - 1) \div BLOCK_SIZE_BYTES
        l == WriteLoop(fs, m, buffer, count, 0, f.current_seek_pos % BLOCK_SIZE_BYTES,
                       f.current_seek_pos \div BLOCK_SIZE_BYTES)
        pos == f.current_seek_pos + l.total
    IN  IF ~f.is_valid \/ f.meta = -1 THEN stay("INVALID_OPERATION")
        ELSE IF ~has_write_access(f.current_mode) THEN stay("INVALID_OPERATION")
        ELSE IF buffer = -1 /\ count_in > 0 THEN stay("IO_ERROR")
        ELSE IF count_in = 0 THEN stay("OK")
        ELSE IF f.current_seek_pos + count_in > MAX_FILE_SIZE_BYTES /\ available_space = 0
        THEN stay("FILE_TOO_LARGE")
        ELSE IF required_blocks > m.num_blocks /\ required_blocks > MAX_BLOCKS_PER_FILE
        THEN stay("FILE_TOO_LARGE")
        ELSE IF /\ required_blocks > m.num_blocks
                /\ f.current_seek_pos + count > m.num_blocks * BLOCK_SIZE_BYTES
                /\ m.num_blocks < MAX_BLOCKS_PER_FILE
        THEN stay("DISK_FULL")
        ELSE IF l.error # "none" THEN stay(l.error)
        ELSE [res |-> "OK", bytes_written |-> l.total,
              fs |-> IF pos > m.size_bytes
                     THEN [l.fs EXCEPT !.file_table[f.meta].size_bytes = pos]
                     ELSE l.fs,
              file |-> [f EXCEPT !.current_seek_pos = pos]]

\* File::seek
File_seek(fs, f, offset) ==
    LET max_seek == IF has_write_access(f.current_mode) THEN MAX_FILE_SIZE_BYTES
                    ELSE fs.file_table[f.meta].size_bytes
    IN  IF ~f.is_valid \/ f.meta = -1 THEN [res |-> "INVALID_OPERATION", file |-> f]
        ELSE [res |-> "OK",
              file |-> [f EXCEPT !.current_seek_pos =
                           IF offset > max_seek THEN max_seek ELSE offset]]


\* the file names, open modes, buffers, byte counts and offsets callers pass
NameInputs == {NULL, "", "a.txt", "b.txt", "a-name-of-thirty-two-characters."}

ModeInputs == {READ, WRITE, READ_WRITE}

BufferInputs == {-1, 65}

CountInputs == {0, 1, 513, MAX_FILE_SIZE_BYTES, MAX_FILE_SIZE_BYTES + 1}

OffsetInputs == {0, BLOCK_SIZE_BYTES, MAX_FILE_SIZE_BYTES + 1}

\* what a filesystem call leaves behind
FsCalled(fs, call) ==
    /\ initialized' = fs.initialized
    /\ file_table' = fs.file_table
    /\ block_bitmap' = fs.block_bitmap
    /\ ram_disk_data' = fs.ram_disk_data
    /\ flast' = call
    /\ UNCHANGED <<gvars, tvars, mvars, kvars>>

\* kernel_main: global_filesystem().init()
FilesystemInit ==
    /\ FsCalled(fs_init(Fs), FileCall("init", NULL, 0, 0, 0, 0, -1, 0, "void", 0, << >>))
    /\ UNCHANGED files

CreateFile ==
    \E filename \in NameInputs :
        LET r == create_file(Fs, filename, "FILE") IN
        /\ FsCalled(r.fs, FileCall("create_file", filename, 0, 0, 0, 0, -1, 0, r.res,
                                   0, << >>))
        /\ UNCHANGED files

\* open_file; the File it returns lives on the heap until the caller deletes it
OpenFile ==
    \E filename \in NameInputs, mode \in ModeInputs :
        LET r == open_file(Fs, filename, mode)
            h == CHOOSE x \in 1..MaxOpenFiles : x \notin DOMAIN files
        IN  /\ Cardinality(DOMAIN files) < MaxOpenFiles
            /\ files' = IF r.res = "OK"
                        THEN [x \in DOMAIN files \cup {h} |->
                                 IF x = h THEN r.file ELSE files[x]]
                        ELSE files
            /\ FsCalled(r.fs, FileCall("open_file", filename, mode,
                                       IF r.res = "OK" THEN h ELSE 0, 0,
                                       IF r.res = "OK"
                                       THEN r.fs.file_table[r.file.meta].size_bytes
                                       ELSE 0,
                                       -1, 0, r.res, 0, << >>))

FileWrite ==
    \E h \in DOMAIN files, buffer \in BufferInputs, count \in CountInputs :
        LET f == files[h]
            r == File_write(Fs, f, buffer, count)
        IN  /\ files' = [files EXCEPT ![h] = r.file]
            /\ FsCalled(r.fs, FileCall("write", file_table[f.meta].name, f.current_mode,
                                       h, f.current_seek_pos,
                                       file_table[f.meta].size_bytes, buffer, count,
                                       r.res, r.bytes_written, << >>))

FileRead ==
    \E h \in DOMAIN files, buffer \in BufferInputs, count \in CountInputs :
        LET f == files[h]
            r == File_read(Fs, f, buffer, count)
        IN  /\ files' = [files EXCEPT ![h] = r.file]
            /\ FsCalled(Fs, FileCall("read", file_table[f.meta].name, f.current_mode, h,
                                     f.current_seek_pos, file_table[f.meta].size_bytes,
                                     buffer, count, r.res, r.bytes_read, r.data))

FileSeek ==
    \E h \in DOMAIN files, offset \in OffsetInputs :
        LET f == files[h]
            r == File_seek(Fs, f, offset)
        IN  /\ files' = [files EXCEPT ![h] = r.file]
            /\ FsCalled(Fs, FileCall("seek", file_table[f.meta].name, f.current_mode, h,
                                     offset, file_table[f.meta].size_bytes, -1, 0,
                                     r.res, 0, << >>))

\* delete file_obj: File::~File, and the object is gone
CloseFile ==
    \E h \in DOMAIN files :
        /\ files' = [x \in DOMAIN files \ {h} |-> files[x]]
        /\ FsCalled(Fs, FileCall("~File", file_table[files[h].meta].name,
                                 files[h].current_mode, h, files[h].current_seek_pos,
                                 file_table[files[h].meta].size_bytes, -1, 0, "void",
                                 0, << >>))

\* delete_file, for a file no File object is open on
DeleteFile ==
    \E filename \in NameInputs :
        LET r == delete_file(Fs, filename) IN
        /\ \A h \in DOMAIN files : files[h].meta # find_metadata(Fs, filename)
        /\ FsCalled(r.fs, FileCall("delete_file", filename, 0, 0, 0, 0, -1, 0, r.res,
                                   0, << >>))
        /\ UNCHANGED files

FsInit ==
    /\ FsUntouched
    /\ TimerUntouched
    /\ MmuUntouched
    /\ CoreUntouched
    /\ cntp = CntpAtBoot(0, 1000000)
    /\ handlers = Constructed
    /\ num_irq_lines = 0
    /\ gicd = GicdAtBoot(1, "reset")
    /\ gicc = [ctlr |-> W32(0), pmr |-> W32(0), bpr |-> W32(0)]
    /\ pc = "idle"
    /\ irq_id = 0
    /\ calls = <<>>
    /\ hops = 0
    /\ log = <<>>
    /\ last = Call("GICDriver", 0, NULL, NULL, "void")

FsNext ==
    \/ FilesystemInit
    \/ CreateFile
    \/ OpenFile
    \/ FileWrite
    \/ FileRead
    \/ FileSeek
    \/ CloseFile
    \/ DeleteFile

FsSpec == FsInit /\ [][FsNext]_vars

\* C40: a write of n bytes, 0 < n <= MAX_FILE_SIZE_BYTES, through a File that
\* open_file handed out with write access (the file just created or truncated,
\* the position at its start) returns OK with bytes_written = n, leaves the file
\* n bytes long, and a File opened on it for reading reads those n bytes back
C40_WriteThenReadBack ==
    (/\ flast.op = "write"
     /\ has_write_access(flast.mode)
     /\ flast.pos = 0
     /\ flast.size = 0
     /\ flast.buffer # -1
     /\ files[flast.file].is_valid
     /\ flast.count > 0
     /\ flast.count <= MAX_FILE_SIZE_BYTES)
    => LET meta == files[flast.file].meta
           back == File_read(Fs, File(Fs, meta, READ), 0, flast.count)
       IN  /\ flast.res = "OK"
           /\ flast.bytes = flast.count
           /\ file_table[meta].size_bytes = flast.count
           /\ back.res = "OK"
           /\ back.bytes_read = flast.count
           /\ back.data = [k \in 1..flast.count |-> BufferByte(flast.buffer, k - 1)]

====
